---- MODULE Spec2Model ----
(***************************************************************************)
(* A model of the grounding / evidence-retrieval pipeline of the AZ-900    *)
(* tutor (src/src/agents/grounding_verifier.py), of the citation schema    *)
(* (src/src/models/schemas.py) and of the MCP tool policy                  *)
(* (src/src/orchestration/tool_policy.py).                                 *)
(*                                                                         *)
(* Text is modelled by TLA+ strings, read character by character with      *)
(* SubSeq, so that Python's str.split, str.lower, str.strip, startswith    *)
(* and the regular expressions of the source are computed, not assumed.   *)
(* The em dash of the insufficiency marker is written "-" (ASCII only).    *)
(***************************************************************************)
EXTENDS Integers, Sequences, FiniteSets, TLC

(***************************************************************************)
(* Python string primitives                                                *)
(***************************************************************************)

\* s[i] of a Python string (1-based here)
CharAt(s, i) == SubSeq(s, i, i)

\* the ASCII characters str.split() and str.strip() treat as whitespace
Whitespace == {" ", "\n", "\t", "\r", "\f"}

UpperChars == "ABCDEFGHIJKLMNOPQRSTUVWXYZ"

LowerChars == "abcdefghijklmnopqrstuvwxyz"

Digits == "0123456789"

\* the set of the characters of s
CharsOf(s) == { CharAt(s, i) : i \in 1..Len(s) }

UpperSet == CharsOf(UpperChars)

LowerSet == CharsOf(LowerChars)

DigitSet == CharsOf(Digits)

LowerMap == [c \in UpperSet |-> CharAt(LowerChars, CHOOSE i \in 1..26 : CharAt(UpperChars, i) = c)]

LowerChar(c) == IF c \in UpperSet THEN LowerMap[c] ELSE c

\* The recursions over text halve it, which keeps their depth logarithmic.
RECURSIVE LowerOf(_)
LowerOf(s) ==
    IF Len(s) = 0 THEN ""
    ELSE IF Len(s) = 1 THEN LowerChar(s)
    ELSE LET mid == Len(s) \div 2 IN
         LowerOf(SubSeq(s, 1, mid)) \o LowerOf(SubSeq(s, mid + 1, Len(s)))

\* str.lower()
lower(s) == LowerOf(s)

\* the words of two adjacent pieces of text: the last word of the left piece
\* and the first of the right one are one word when no whitespace parts them
JoinPieces(left, right) ==
    IF left.open_right /\ right.open_left
    THEN [ words |-> SubSeq(left.words, 1, Len(left.words) - 1)
                       \o <<left.words[Len(left.words)] \o right.words[1]>>
                       \o Tail(right.words),
           open_left |-> left.open_left, open_right |-> right.open_right ]
    ELSE [ words |-> left.words \o right.words,
           open_left |-> left.open_left, open_right |-> right.open_right ]

RECURSIVE SplitPiece(_)
SplitPiece(s) ==
    IF Len(s) = 1
    THEN IF s \in Whitespace
         THEN [words |-> <<>>, open_left |-> FALSE, open_right |-> FALSE]
         ELSE [words |-> <<s>>, open_left |-> TRUE, open_right |-> TRUE]
    ELSE LET mid == Len(s) \div 2 IN
         JoinPieces(SplitPiece(SubSeq(s, 1, mid)), SplitPiece(SubSeq(s, mid + 1, Len(s))))

\* str.split() with no argument: the maximal runs of non-whitespace
split(s) == IF Len(s) = 0 THEN <<>> ELSE SplitPiece(s).words

RECURSIVE JoinRange(_, _, _)
JoinRange(words, lo, hi) ==
    IF lo > hi THEN ""
    ELSE IF lo = hi THEN words[lo]
    ELSE LET mid == (lo + hi) \div 2 IN
         JoinRange(words, lo, mid) \o " " \o JoinRange(words, mid + 1, hi)

\* " ".join(words)
join(words) == JoinRange(words, 1, Len(words))

\* s.startswith(p)
startswith(s, p) == Len(s) >= Len(p) /\ SubSeq(s, 1, Len(p)) = p

\* s.endswith(p)
endswith(s, p) == Len(s) >= Len(p) /\ SubSeq(s, Len(s) - Len(p) + 1, Len(s)) = p

\* sub in s
contains(s, sub) ==
    \E i \in 1..(Len(s) - Len(sub) + 1) : SubSeq(s, i, i + Len(sub) - 1) = sub

\* the least index in lo..hi whose character is in chars (member = TRUE) or
\* is not in chars (member = FALSE); hi + 1 if there is none
RECURSIVE FindIn(_, _, _, _, _)
FindIn(s, lo, hi, chars, member) ==
    IF lo > hi THEN hi + 1
    ELSE IF lo = hi THEN (IF (CharAt(s, lo) \in chars) = member THEN lo ELSE hi + 1)
    ELSE LET mid  == (lo + hi) \div 2
             left == FindIn(s, lo, mid, chars, member)
         IN  IF left <= mid THEN left ELSE FindIn(s, mid + 1, hi, chars, member)

\* the greatest index in lo..hi whose character is not in chars; lo - 1 if none
RECURSIVE FindLastNotIn(_, _, _, _)
FindLastNotIn(s, lo, hi, chars) ==
    IF lo > hi THEN lo - 1
    ELSE IF lo = hi THEN (IF CharAt(s, lo) \notin chars THEN lo ELSE lo - 1)
    ELSE LET mid   == (lo + hi) \div 2
             right == FindLastNotIn(s, mid + 1, hi, chars)
         IN  IF right > mid THEN right ELSE FindLastNotIn(s, lo, mid, chars)

\* the index of the first character of s, from i on, that is in chars; Len(s)+1 if none
FindFirst(s, i, chars) == FindIn(s, i, Len(s), chars, TRUE)

\* s.rstrip(chars)
rstrip(s, chars) == SubSeq(s, 1, FindLastNotIn(s, 1, Len(s), chars))

\* the index of the first character of s, from i on, that is not in chars
LStripPos(s, i, chars) == FindIn(s, i, Len(s), chars, FALSE)

\* s.strip()
strip(s) ==
    LET r == rstrip(s, Whitespace) IN SubSeq(r, LStripPos(r, 1, Whitespace), Len(r))

(***************************************************************************)
(* src/src/models/schemas.py: Citation and GroundedExplanation             *)
(***************************************************************************)

SchemeChars == LowerSet \cup UpperSet \cup DigitSet \cup {"+", "-", "."}

\* urllib.parse.urlparse(value), its scheme and netloc fields: the scheme is
\* the text before the first ":" when that text is a letter followed by
\* scheme characters (returned lower-cased); the netloc is what follows "//"
\* up to the first "/", "?" or "#".
urlparse(value) ==
    LET colon     == FindFirst(value, 1, {":"})
        head      == SubSeq(value, 1, colon - 1)
        hasScheme == /\ colon <= Len(value)
                     /\ colon > 1
                     /\ CharAt(value, 1) \in (LowerSet \cup UpperSet)
                     /\ CharsOf(head) \subseteq SchemeChars
        rest      == IF hasScheme THEN SubSeq(value, colon + 1, Len(value)) ELSE value
        stop      == FindFirst(rest, 3, {"/", "?", "#"})
    IN  [ scheme |-> IF hasScheme THEN lower(head) ELSE "",
          netloc |-> IF startswith(rest, "//") THEN SubSeq(rest, 3, stop - 1) ELSE "" ]

\* Citation._validate_learn_url: TRUE when the value is accepted, FALSE when
\* the validator raises ValueError
_validate_learn_url(value) ==
    LET parsed == urlparse(value)
        host   == lower(parsed.netloc)
    IN  /\ parsed.scheme = "https"
        /\ host # ""
        /\ (host = "learn.microsoft.com" \/ endswith(host, ".learn.microsoft.com"))

MaxSnippetWords == 20

\* a variant of _validate_snippet_words without the word limit
AnySnippetAccepted(value) == TRUE

\* Citation._validate_snippet_words: TRUE when accepted, FALSE when it raises
_validate_snippet_words(value) ==
    LET words == split(value) IN Len(words) > 0 /\ Len(words) <= MaxSnippetWords

\* Citation(title=..., url=..., snippet=...): the record built
Citation(title, url, snippet) == [title |-> title, url |-> url, snippet |-> snippet]

\* whether constructing (or validating) the citation succeeds; FALSE stands
\* for pydantic's ValidationError
CitationAccepted(c) == _validate_learn_url(c.url) /\ _validate_snippet_words(c.snippet)

\* a variant of GroundedExplanationAccepted that validates no field
AnyObjectAccepted(data) == data.kind = "object"

\* GroundedExplanation.model_validate(data) on the value extract_json
\* returned: data.kind is "object" for a JSON object and "array" otherwise;
\* data.fields are the keys present in the object.  TRUE when the value is
\* accepted, FALSE when ValidationError is raised.
GroundedExplanationAccepted(data) ==
    /\ data.kind = "object"
    /\ {"question_id", "explanation", "citations"} \subseteq data.fields
    /\ Len(data.citations) >= 1
    /\ \A i \in 1..Len(data.citations) : CitationAccepted(data.citations[i])

(***************************************************************************)
(* src/src/orchestration/tool_policy.py                                    *)
(***************************************************************************)

ALLOWED_MCP_TOOLS ==
    {"microsoft_docs_search", "microsoft_docs_fetch", "microsoft_code_sample_search"}

MaxToolNameLen == 64

\* _TOOL_NAME_RE.fullmatch(name): ^[a-z0-9_]{1,64}$
_TOOL_NAME_RE(name) ==
    /\ Len(name) >= 1
    /\ Len(name) <= MaxToolNameLen
    /\ CharsOf(name) \subseteq (LowerSet \cup DigitSet \cup {"_"})

\* A Python value handed to the policy: t is its type ("str", "NoneType",
\* "int", "list", "dict"), v its text (for a str, the string itself).
PyStr(s) == [t |-> "str", v |-> s]

RECURSIVE Concat(_)
Concat(words) == IF words = <<>> THEN "" ELSE Head(words) \o Concat(Tail(words))

\* a variant of _normalize_tool_name that drops whitespace wherever it stands
NormalizeDroppingWhitespace(tool_name) ==
    IF tool_name.t = "str"
    THEN [raised |-> FALSE, value |-> lower(Concat(split(tool_name.v)))]
    ELSE [raised |-> TRUE, value |-> "AttributeError"]

\* _normalize_tool_name(tool_name): tool_name.split() exists only on str;
\* on any other type the attribute lookup raises AttributeError
_normalize_tool_name(tool_name) ==
    IF tool_name.t = "str"
    THEN [raised |-> FALSE, value |-> lower(join(split(tool_name.v)))]
    ELSE [raised |-> TRUE, value |-> "AttributeError"]

_is_normalized_tool_allowed(normalized_tool_name) ==
    IF ~_TOOL_NAME_RE(normalized_tool_name) THEN FALSE
    ELSE normalized_tool_name \in ALLOWED_MCP_TOOLS

\* is_tool_allowed(tool_name): [raised, value]; value is the boolean returned
is_tool_allowed(tool_name) ==
    LET normalized == _normalize_tool_name(tool_name) IN
    IF normalized.raised
    THEN [raised |-> TRUE, value |-> FALSE, reason |-> normalized.value]
    ELSE [raised |-> FALSE, value |-> _is_normalized_tool_allowed(normalized.value),
          reason |-> ""]

\* approval_handler(tool_name): [raised, value, reason]; (value, reason) is
\* the pair returned.  The denial reason ends with the repr of the allow-list
\* set, which is left out here.
approval_handler(tool_name) ==
    LET normalized == _normalize_tool_name(tool_name) IN
    IF normalized.raised
    THEN [raised |-> TRUE, value |-> FALSE, reason |-> normalized.value]
    ELSE IF _is_normalized_tool_allowed(normalized.value)
         THEN [raised |-> FALSE, value |-> TRUE,
               reason |-> "auto-approved (read-only allowlist)"]
         ELSE [raised |-> FALSE, value |-> FALSE,
               reason |-> "Tool '" \o normalized.value \o "' is not in the allowlist"]

(***************************************************************************)
(* src/src/agents/grounding_verifier.py: pure helpers                      *)
(***************************************************************************)

\* JSON-like values returned by the tool invoker: a str, a dict (an ordered
\* list of key/value items), a list, or anything else ("other")
JStr(s) == [t |-> "str", s |-> s, items |-> <<>>]

JItem(k, v) == [k |-> k, v |-> v]

JDict(items) == [t |-> "dict", s |-> "", items |-> items]

JList(items) == [t |-> "list", s |-> "", items |-> items]

JOther == [t |-> "other", s |-> "", items |-> <<>>]

\* d.get(k): the value under key k, or None (JOther)
DictGet(d, k) ==
    IF \E i \in 1..Len(d.items) : d.items[i].k = k
    THEN d.items[CHOOSE i \in 1..Len(d.items) : d.items[i].k = k].v
    ELSE JOther

RECURSIVE _iter_dicts(_), IterEach(_, _)
\* _iter_dicts(value): every nested dict node, parents first
_iter_dicts(value) ==
    IF value.t = "dict"
    THEN <<value>> \o IterEach([i \in 1..Len(value.items) |-> value.items[i].v], 1)
    ELSE IF value.t = "list" THEN IterEach(value.items, 1)
    ELSE <<>>

IterEach(values, i) ==
    IF i > Len(values) THEN <<>> ELSE _iter_dicts(values[i]) \o IterEach(values, i + 1)

RECURSIVE FirstTextFrom(_, _, _)
FirstTextFrom(d, keys, i) ==
    IF i > Len(keys) THEN ""
    ELSE LET v == DictGet(d, keys[i]) IN
         IF v.t = "str" /\ strip(v.s) # "" THEN strip(v.s)
         ELSE FirstTextFrom(d, keys, i + 1)

\* _first_text(d, keys): the first non-blank str under one of the keys,
\* stripped; None is written "" (every caller tests the result for truth)
_first_text(d, keys) == FirstTextFrom(d, keys, 1)

\* _trim_words(text, max_words)
_trim_words(text, max_words) ==
    LET words == split(text) IN
    join(SubSeq(words, 1, IF Len(words) < max_words THEN Len(words) ELSE max_words))

\* _to_snippet(text)
_to_snippet(text) ==
    LET clean == join(split(text)) IN
    IF clean = "" THEN "" ELSE _trim_words(clean, MaxSnippetWords)

\* _CHOICE_PREFIX.sub("", clean): ^[A-F]\)\s* removed
ChoicePrefixSub(clean) ==
    IF Len(clean) >= 2 /\ CharAt(clean, 1) \in CharsOf("ABCDEF") /\ CharAt(clean, 2) = ")"
    THEN SubSeq(clean, LStripPos(clean, 3, Whitespace), Len(clean))
    ELSE clean

\* a variant of _choice_text that keeps the letter prefix
ChoiceTextWithPrefix(question, index) ==
    IF index < 0 \/ index >= Len(question.choices) THEN "Unknown"
    ELSE LET clean == strip(join(split(question.choices[index + 1])))
         IN  IF clean = "" THEN "Unknown" ELSE clean

\* _choice_text(question, index); index is 0-based as in the source
_choice_text(question, index) ==
    IF index < 0 \/ index >= Len(question.choices) THEN "Unknown"
    ELSE LET clean == strip(ChoicePrefixSub(strip(join(split(question.choices[index + 1])))))
         IN  IF clean = "" THEN "Unknown" ELSE clean

\* _choice_ref(question, index)
_choice_ref(question, index) ==
    CharAt(UpperChars, index + 1) \o ") " \o _choice_text(question, index)

\* an absent DiagnosisResult (None)
NoDiagnosis == [present |-> FALSE, misconception_id |-> ""]

\* a DiagnosisResult; misconception_id "" stands for None
DiagnosisResult(misconception_id) == [present |-> TRUE, misconception_id |-> misconception_id]

RECURSIVE DedupeQueries(_, _, _, _)
DedupeQueries(queries, i, seen, deduped) ==
    IF i > Len(queries) THEN deduped
    ELSE LET key == strip(lower(queries[i])) IN
         IF key = "" \/ key \in seen
         THEN DedupeQueries(queries, i + 1, seen, deduped)
         ELSE DedupeQueries(queries, i + 1, seen \cup {key}, Append(deduped, queries[i]))

\* _build_search_queries(question, diag)
_build_search_queries(question, diag) ==
    LET stem           == join(split(question.stem))
        correct_choice == _choice_text(question, question.answer_key)
        base == << "AZ-900 " \o question.domain \o " " \o stem,
                   "AZ-900 " \o question.domain \o " " \o correct_choice,
                   "Microsoft Learn " \o correct_choice \o " Azure" >>
        queries == IF diag.present /\ diag.misconception_id # ""
                   THEN Append(base, "AZ-900 " \o question.domain \o " " \o diag.misconception_id)
                   ELSE base
    IN  DedupeQueries(queries, 1, {}, <<>>)

url_keys == <<"url", "link", "document_url", "source_url", "web_url", "href">>

title_keys == <<"title", "name", "document_title", "page_title">>

snippet_keys == <<"snippet", "summary", "description", "excerpt", "text">>

content_keys == <<"content", "text", "body", "markdown", "document", "page_content">>

RECURSIVE ExtractHitsFrom(_, _, _, _)
ExtractHitsFrom(nodes, i, seen, hits) ==
    IF i > Len(nodes) THEN hits
    ELSE LET url == _first_text(nodes[i], url_keys) IN
         IF url = "" \/ ~contains(lower(url), "learn.microsoft.com") \/ url \in seen
         THEN ExtractHitsFrom(nodes, i + 1, seen, hits)
         ELSE LET title == _first_text(nodes[i], title_keys) IN
              ExtractHitsFrom(nodes, i + 1, seen \cup {url},
                  Append(hits, [ title   |-> IF title = "" THEN "Microsoft Learn" ELSE title,
                                 url     |-> url,
                                 snippet |-> _to_snippet(_first_text(nodes[i], snippet_keys)) ]))

\* _extract_search_hits(payload)
_extract_search_hits(payload) == ExtractHitsFrom(_iter_dicts(payload), 1, {}, <<>>)

RECURSIVE LongestFrom(_, _, _)
LongestFrom(nodes, i, best) ==
    IF i > Len(nodes) THEN best
    ELSE LET text == _first_text(nodes[i], content_keys) IN
         LongestFrom(nodes, i + 1, IF Len(text) > Len(best) THEN text ELSE best)

\* _extract_fetched_content(payload): the longest candidate, the first of
\* them on a tie (max keeps the first maximal element); "" when none
_extract_fetched_content(payload) == LongestFrom(_iter_dicts(payload), 1, "")

RECURSIVE MergeFrom(_, _, _, _)
MergeFrom(all, i, seen, merged) ==
    IF i > Len(all) THEN merged
    ELSE IF all[i].url = "" \/ all[i].url \in seen
         THEN MergeFrom(all, i + 1, seen, merged)
         ELSE MergeFrom(all, i + 1, seen \cup {all[i].url}, Append(merged, all[i]))

\* _merge_hits(first, second)
_merge_hits(first, second) == MergeFrom(first \o second, 1, {}, <<>>)

_STUB_CITATIONS ==
    << Citation("Shared responsibility in the cloud",
                "https://learn.microsoft.com/en-us/azure/security/fundamentals/shared-responsibility",
                "Responsibilities vary by service type: SaaS, PaaS, IaaS."),
       Citation("Azure regions and availability zones",
                "https://learn.microsoft.com/en-us/azure/reliability/availability-zones-overview",
                "Availability Zones are unique physical locations within a region."),
       Citation("What is Microsoft Entra ID?",
                "https://learn.microsoft.com/en-us/entra/fundamentals/whatis",
                "Cloud-based identity and access management service.") >>

\* the keys of _DOMAIN_FALLBACK_CITATIONS
FallbackDomains ==
    {"Cloud Concepts", "Azure Architecture", "Security", "Identity",
     "Azure Services", "Governance", "Cost Management"}

_DOMAIN_FALLBACK_CITATIONS(domain) ==
    CASE domain = "Cloud Concepts" -> _STUB_CITATIONS[1]
      [] domain = "Azure Architecture" -> _STUB_CITATIONS[2]
      [] domain = "Security" -> _STUB_CITATIONS[3]
      [] domain = "Identity" ->
            Citation("What is Microsoft Entra ID?",
                     "https://learn.microsoft.com/en-us/entra/fundamentals/whatis",
                     "Entra ID provides identity and access management for Azure resources.")
      [] domain = "Azure Services" ->
            Citation("Overview of Azure App Service",
                     "https://learn.microsoft.com/en-us/azure/app-service/overview",
                     "Azure App Service hosts web apps and APIs as a managed platform.")
      [] domain = "Governance" ->
            Citation("What is Azure Policy?",
                     "https://learn.microsoft.com/en-us/azure/governance/policy/overview",
                     "Azure Policy enforces standards and assesses compliance across resources.")
      [] domain = "Cost Management" ->
            Citation("Cost Management + Billing documentation",
                     "https://learn.microsoft.com/en-us/azure/cost-management-billing/",
                     "Use cost analysis and budgets to monitor and optimize Azure spend.")

_build_placeholder_citation ==
    Citation("Microsoft Learn", "https://learn.microsoft.com/",
             "No matching Microsoft Learn evidence retrieved yet.")

_is_placeholder_citation(citation) ==
    IF rstrip(citation.url, {"/"}) = "https://learn.microsoft.com" THEN TRUE
    ELSE contains(lower(citation.snippet),
                  "no matching microsoft learn evidence retrieved yet")

\* a variant of _fallback_citations that takes the first citations of the
\* evidence list without looking at them
FirstOfEvidence(question, evidence) ==
    IF Len(evidence) > 0
    THEN SubSeq(evidence, 1, IF Len(evidence) < 2 THEN Len(evidence) ELSE 2)
    ELSE IF question.domain \in FallbackDomains
         THEN <<_DOMAIN_FALLBACK_CITATIONS(question.domain)>>
         ELSE <<_build_placeholder_citation>>

\* _fallback_citations(question, evidence)
_fallback_citations(question, evidence) ==
    LET real_evidence == SelectSeq(evidence, LAMBDA c : ~_is_placeholder_citation(c)) IN
    IF Len(real_evidence) > 0
    THEN SubSeq(real_evidence, 1, IF Len(real_evidence) < 2 THEN Len(real_evidence) ELSE 2)
    ELSE IF question.domain \in FallbackDomains
         THEN <<_DOMAIN_FALLBACK_CITATIONS(question.domain)>>
         ELSE <<_build_placeholder_citation>>

\* _deterministic_explanation(question, diag)
_deterministic_explanation(question, diag) ==
    LET correct == _choice_ref(question, question.answer_key)
        draft   == strip(join(split(question.rationale_draft)))
        filled  == IF draft = ""
                   THEN "Review this AZ-900 concept and why this option best fits the service model."
                   ELSE draft
        rationale == IF endswith(filled, ".") \/ endswith(filled, "!") \/ endswith(filled, "?")
                     THEN filled ELSE filled \o "."
    IN  IF diag.present /\ diag.misconception_id # ""
        THEN "Correct answer: " \o correct \o ". " \o rationale
                 \o " Focus area: " \o diag.misconception_id \o "."
        ELSE "Correct answer: " \o correct \o ". " \o rationale

InsufficientEvidence == "Insufficient evidence - please narrow your query."

GroundedExplanation(question_id, explanation, citations) ==
    [question_id |-> question_id, explanation |-> explanation, citations |-> citations]

\* _fallback_ground(question, evidence, diag)
_fallback_ground(question, evidence, diag) ==
    LET citations == _fallback_citations(question, evidence)
        placeholder_only ==
            Len(citations) = 1 /\ rstrip(citations[1].url, {"/"}) = "https://learn.microsoft.com"
    IN  GroundedExplanation(question.id,
            IF placeholder_only THEN InsufficientEvidence
            ELSE _deterministic_explanation(question, diag),
            citations)

\* _offline_ground(question, diag)
_offline_ground(question, diag) ==
    GroundedExplanation(question.id, _deterministic_explanation(question, diag),
                        _fallback_citations(question, <<>>))

MinExplanationLen == 30

\* a variant of _is_low_signal_explanation that rejects nothing
NeverLowSignal(text) == FALSE

\* _is_low_signal_explanation(text)
_is_low_signal_explanation(text) ==
    LET clean == strip(join(split(text))) IN
    IF Len(clean) < MinExplanationLen THEN TRUE
    ELSE startswith(lower(clean), "insufficient evidence")

(***************************************************************************)
(* src/src/util/jsonio.py                                                  *)
(***************************************************************************)

\* The model caller's raw output: is_str (whether it is a str at all), fenced
\* (wrapped in ``` fences), prose (text before the JSON), json ("none",
\* "object", "array": what JSON document the text holds) and data (the
\* document parsed).
\* extract_json(raw): [raised, value].  re.sub raises TypeError on a non-str;
\* json.loads of the fence-stripped text succeeds when it is a bare JSON
\* document; otherwise the first-"{"-to-last-"}" block is parsed, which only
\* an object survives; else ValueError.
extract_json(raw) ==
    IF ~raw.is_str THEN [raised |-> TRUE, value |-> raw.data]
    ELSE IF raw.json # "none" /\ ~raw.prose THEN [raised |-> FALSE, value |-> raw.data]
    ELSE IF raw.json = "object" THEN [raised |-> FALSE, value |-> raw.data]
    ELSE [raised |-> TRUE, value |-> raw.data]

(***************************************************************************)
(* The inputs of a grounding call and the behaviours of the external actor *)
(***************************************************************************)

Question(id, domain, stem, choices, answer_key, rationale_draft) ==
    [id |-> id, domain |-> domain, stem |-> stem, choices |-> choices,
     answer_key |-> answer_key, rationale_draft |-> rationale_draft]

\* well-formed questions: 2..6 choices, answer_key a valid 0-based index
Questions ==
    { Question("1", "Security", "Which service handles identity in Azure?",
               <<"A) X", "B) Microsoft Entra ID">>, 1, "Identity is handled by Entra ID."),
      Question("10", "Networking", "azure  dns",
               <<"A) Azure DNS", "B) Azure Firewall", "C) Azure Bastion">>, 0,
               "Azure DNS hosts\ndomains") }

Diagnoses == { NoDiagnosis, DiagnosisResult("IDAM") }

UrlA == "https://learn.microsoft.com/entra/whatis"

UrlB == "https://learn.microsoft.com/azure/app-service/overview"

UrlC == "https://docs.learn.microsoft.com/samples/bicep"

\* contains the approved domain, but is not https
UrlW == "http://learn.microsoft.com/entra/whatis"

HitNode(title, url, snippet) ==
    JDict(<< JItem("title", JStr(title)), JItem("url", JStr(url)),
             JItem("snippet", JStr(snippet)) >>)

HitA == HitNode("What is Entra ID?", UrlA, "Microsoft Entra ID is a cloud-based identity service.")

HitB == HitNode("Overview of Azure App Service", UrlB, "App Service hosts  web apps.")

\* a hit under other key names, with neither title nor snippet
HitC == JDict(<< JItem("link", JStr(" " \o UrlC \o " ")) >>)

HitW == HitNode("What is Entra ID?", UrlW, "Identity service.")

\* what the tool invoker may return for microsoft_docs_search
DocsResults ==
    << JDict(<<>>),
       JDict(<< JItem("results", JList(<<HitA, HitB, HitC>>)) >>),
       JDict(<< JItem("value", JDict(<< JItem("items", JList(<<HitW>>)) >>)) >>) >>

UrlD == "https://learn.microsoft.com/samples/azure-cli"

UrlE == "https://learn.microsoft.com/samples/arm"

\* what the tool invoker may return for microsoft_code_sample_search: the
\* last result holds more samples than the top_k = 2 asked for
CodeResults ==
    << JStr("no samples"),
       JDict(<< JItem("results",
                JList(<< HitNode("Deploy a Linux VM with Bicep", UrlC,
                                 "Use a Bicep template to deploy a Linux virtual machine.") >>)) >>),
       JDict(<< JItem("results",
                JList(<< HitNode("Deploy a Linux VM with Bicep", UrlC,
                                 "Use a Bicep template to deploy a Linux virtual machine."),
                         HitNode("Azure CLI samples", UrlD, "Create a VM with az vm create."),
                         HitNode("ARM template samples", UrlE, "") >>)) >>) >>

\* 22 words, with runs of whitespace
LongContent ==
    "Microsoft Entra ID is a cloud-based identity  and access management service.\nIt helps staff sign in and use apps such as Microsoft 365."

\* what the tool invoker may return for microsoft_docs_fetch
FetchResults ==
    << JDict(<<>>),
       JDict(<< JItem("title", JStr("page")),
                JItem("page", JDict(<< JItem("text", JStr("short")),
                                       JItem("content", JStr(LongContent)) >>)) >>) >>

\* an outcome of one call of the tool invoker: it raises an ordinary error,
\* raises a rate-limit error ("Error code: 429 - Too Many Requests"), or
\* returns the k-th result of the tool
Raises == [kind |-> "raise", k |-> 0]

Throttles == [kind |-> "throttle", k |-> 0]

Returns(k) == [kind |-> "return", k |-> k]

\* what list_mcp_tools does: it is no callable attribute, raises, returns
\* something that is no list, or returns a list (of str and other values)
Lister(kind, tools) == [kind |-> kind, tools |-> tools]

NoLister == Lister("absent", <<>>)

AllToolsListed ==
    Lister("list", << PyStr("microsoft_docs_search"),
                      PyStr("microsoft_code_sample_search"),
                      PyStr("microsoft_docs_fetch") >>)

\* an external actor (foundry_run): run_mcp_tool is "absent" (no callable
\* attribute), always "raises", always "throttles", or "accepts" the argument
\* shapes from the shape-th on and raises for the earlier ones
Actor(run_mcp_tool, shape, list_mcp_tools) ==
    [run_mcp_tool |-> run_mcp_tool, shape |-> shape, list_mcp_tools |-> list_mcp_tools]

\* eval/test_grounding_mcp.py: the stub runners
CodeSampleOnlyRunner ==
    Actor("accepts", 1, Lister("list", <<PyStr("microsoft_code_sample_search")>>))

ThrottledMCPRunner == Actor("throttles", 1, AllToolsListed)

Actors ==
    { Actor("absent", 1, NoLister),
      Actor("absent", 1, AllToolsListed),
      Actor("accepts", 1,
            Lister("list", << PyStr(" microsoft_docs_search "), [t |-> "int", v |-> "7"],
                              PyStr("microsoft_docs_fetch"), PyStr("  ") >>)),
      CodeSampleOnlyRunner,
      Actor("accepts", 2, NoLister),
      Actor("accepts", 3, Lister("raise", <<>>)),
      Actor("accepts", 1, Lister("list", <<>>)),
      Actor("raises", 1, Lister("nonlist", <<>>)),
      ThrottledMCPRunner }

ModelData(kind, fields, question_id, explanation, citations) ==
    [kind |-> kind, fields |-> fields, question_id |-> question_id,
     explanation |-> explanation, citations |-> citations]

AllFields == {"question_id", "explanation", "citations"}

RawText(prose, json, data) ==
    [raises |-> FALSE, is_str |-> TRUE, prose |-> prose, json |-> json, data |-> data]

NoData == ModelData("array", {}, "", "", <<>>)

CitA == Citation("What is Entra ID?", UrlA, "Microsoft Entra ID is a cloud-based identity service.")

\* 21 words
LongSnippet ==
    "one two three four five six seven eight nine ten eleven twelve thirteen fourteen fifteen sixteen seventeen eighteen nineteen twenty twentyone"

\* what the model caller may do: raise, or return one of these texts
ModelOutputs ==
    << [raises |-> TRUE, is_str |-> TRUE, prose |-> FALSE, json |-> "none", data |-> NoData],
       RawText(TRUE, "none", NoData),
       [raises |-> FALSE, is_str |-> FALSE, prose |-> FALSE, json |-> "none", data |-> NoData],
       RawText(FALSE, "array", NoData),
       RawText(TRUE, "array", NoData),
       RawText(FALSE, "object",
           ModelData("object", AllFields, "q1",
               "Microsoft Entra ID provides centralized identity and access management in Azure.",
               <<CitA>>)),
       RawText(TRUE, "object",
           ModelData("object", AllFields, "10", InsufficientEvidence,
               <<_build_placeholder_citation>>)),
       RawText(FALSE, "object",
           ModelData("object", AllFields, "1", "  Entra ID   handles \n identity.   ", <<CitA>>)),
       RawText(FALSE, "object",
           ModelData("object", AllFields, "1",
               " INSUFFICIENT  Evidence was found for this question, sorry.", <<CitA>>)),
       RawText(FALSE, "object",
           ModelData("object", AllFields, "1",
               "Microsoft Entra ID provides centralized identity and access management in Azure.",
               <<>>)),
       RawText(FALSE, "object",
           ModelData("object", AllFields, "1",
               "Microsoft Entra ID provides centralized identity and access management in Azure.",
               <<Citation("Bad domain", "https://example.com/docs", "This should fail domain validation.")>>)),
       RawText(FALSE, "object",
           ModelData("object", AllFields, "1",
               "Microsoft Entra ID provides centralized identity and access management in Azure.",
               <<Citation("Azure Docs", UrlA, LongSnippet)>>)),
       RawText(FALSE, "object",
           ModelData("object", {"question_id", "citations"}, "1", "", <<CitA>>)) >>

(***************************************************************************)
(* State                                                                   *)
(***************************************************************************)

VARIABLES
    cache,             \* the Evidence Cache: a function from the cached URLs to content
    actor,             \* the external actor's capabilities: which methods are callable
    call_no,           \* grounding calls started so far
    pc,                \* position of the current call of run_grounding_verifier
    question,          \* arguments of the current call
    diagnosis_result,
    offline,
    foundry_run,       \* "None" or "actor"
    queries,           \* locals of the current call
    discovered_tools,
    docs_hits,
    code_sample_hits,
    hits,
    evidence,
    idx,               \* the loop position: a query index, then a hit index (1-based)
    attempt,           \* the argument shape tried next (1-based)
    model_output,      \* which of ModelOutputs the model caller gave in this call (0: none yet)
    model_result,      \* the validated synthesis result ("result" before the low-signal test)
    result,            \* the GroundedExplanation returned
    mode,              \* how the call ended
    calls_made,        \* the calls made in this call: those the actor received (tool
                       \* listing, the three tools, the model) and those of the cache
    throttle_seen,     \* the actor raised a rate-limit error in this call
    throttled_prior,   \* the actor raised a rate-limit error in an earlier call
    policy_call,       \* the last direct call of the tool policy: its input and outcome
    limiter,           \* api.py: the rate limiter's configuration (max_requests 0: none)
    clock,             \* the value time() returns, in seconds
    buckets,           \* _SlidingWindowRateLimiter._buckets: the timestamps kept per key
    admitted,          \* per key, the timestamps of the calls of check that returned None
    checks,            \* per thread, the call of check in progress: its key and its "now"
    checked,           \* the last call of check that returned: its key and its outcome
    state_store,       \* the StateStore: the StudentState saved under each key
    response,          \* the last /v1 request handled and its response
    diagnosis,         \* misconception.py: the call of run_misconception and its outcome
    puts,              \* cache.py: per thread, the call of cache_put in progress
    tool_request       \* the last call of _run_search_tool or _run_fetch_tool made directly

groundingVars ==
    << cache, actor, call_no, pc, question, diagnosis_result, offline, foundry_run,
       queries, discovered_tools, docs_hits, code_sample_hits, hits, evidence, idx,
       attempt, model_output, model_result, result, mode, calls_made, throttle_seen,
       throttled_prior, policy_call >>

apiVars ==
    << limiter, clock, buckets, admitted, checks, checked, state_store, response >>

otherVars == << diagnosis, puts, tool_request >>

vars == groundingVars \o apiVars \o otherVars

\* grounding calls issued in one behaviour
MaxCalls == 2

\* seconds the clock runs in one behaviour
MaxClock == 3

\* the threads that serve requests
Threads == {"t1", "t2"}

\* api.py:220-225: the rate-limit keys of the requests: "user:" and the
\* token's principal, or "ip:" and the client's host
RateLimitKeys == {"user:u1", "user:o1", "ip:testclient"}

\* api.py:73-77: max(0, max_requests), max(1, window_seconds)
_SlidingWindowRateLimiter(max_requests, window_seconds) ==
    [max_requests |-> IF max_requests < 0 THEN 0 ELSE max_requests,
     window_seconds |-> IF window_seconds < 1 THEN 1 ELSE window_seconds]

\* no call of check in progress
NoCheck == [pc |-> "idle", key |-> "", now |-> 0]

\* no call of check has returned: retry_after 0 stands for None
NoneChecked == [key |-> "", retry_after |-> 0]

\* StateStore.load of a key nothing was saved under: StudentState()
StudentState == [preferred_minutes |-> 30, last_session |-> "None"]

\* a key a dict does not hold: claims.get(key) is None
Absent == [t |-> "NoneType", v |-> "None"]

\* the claims a token validator returned, as far as the API reads them;
\* is_none: _authorize_v1 returned None (no validator is configured)
Claims(oid, sub, tid) == [is_none |-> FALSE, oid |-> oid, sub |-> sub, tid |-> tid]

NoClaims == [is_none |-> TRUE, oid |-> Absent, sub |-> Absent, tid |-> Absent]

\* no request served yet
NoResponse ==
    [endpoint |-> "", claims |-> NoClaims, user_id |-> "", status |-> 0, retry_after |-> 0,
     effective_user_id |-> "", loaded |-> {}, saved |-> {}, state |-> StudentState]

\* no call of run_misconception made yet
NoDiagnosisCall ==
    [pc |-> "idle", exam |-> <<>>, answers |-> <<>>, offline |-> FALSE, model_output |-> 0,
     results |-> <<>>, top_misconceptions |-> <<>>]

\* no call of cache_put in progress
NoPut == [pc |-> "idle", url |-> "", content |-> "", data |-> <<>>]

\* a tool request that returned None
NoPayload == [is_none |-> TRUE, value |-> JOther]

\* no tool request made directly
NoToolRequest ==
    [pc |-> "idle", tool_name |-> "", shapes |-> 0,
     discovered_tools |-> [available |-> FALSE, names |-> {}],
     attempt |-> 1, received |-> <<>>, raised |-> {}, returned |-> NoPayload]

\* the other components before their first call
OtherInit ==
    /\ diagnosis = NoDiagnosisCall
    /\ puts = [t \in Threads |-> NoPut]
    /\ tool_request = NoToolRequest

\* the API at start: a limiter as configured, no request served
ApiInit(max_requests, window_seconds) ==
    /\ limiter = _SlidingWindowRateLimiter(max_requests, window_seconds)
    /\ clock = 0
    /\ buckets = [k \in RateLimitKeys |-> <<>>]
    /\ admitted = [k \in RateLimitKeys |-> <<>>]
    /\ checks = [t \in Threads |-> NoCheck]
    /\ checked = NoneChecked
    /\ state_store = <<>>
    /\ response = NoResponse

SearchShapes == 3

FetchShapes == 2

MaxDocsHits == 3

MaxCodeHits == 2

CodeQueries == 2

MaxSelectedHits == 3

NoResult == GroundedExplanation("", "", <<>>)

ZeroCalls == [list |-> 0, docs |-> 0, code |-> 0, fetch |-> 0, model |-> 0, cache |-> 0]

\* discovered_tools = None
DiscoveryUnavailable == [available |-> FALSE, names |-> {}]

NoPolicyCall ==
    [op |-> "none", input |-> PyStr(""), out |-> [raised |-> FALSE, value |-> FALSE, reason |-> ""]]


(***************************************************************************)
(* src/src/orchestration/cache.py                                          *)
(***************************************************************************)

\* cache_get(url); None is written ""
cache_get(store, url) == IF url \in DOMAIN store THEN store[url] ELSE ""

\* cache_put(url, content): the store afterwards
cache_put(store, url, content) ==
    [u \in (DOMAIN store) \cup {url} |-> IF u = url THEN content ELSE store[u]]

(***************************************************************************)
(* src/src/agents/grounding_verifier.py: the tool gateway                  *)
(***************************************************************************)

\* a variant of _supports_tool_runner that takes every actor as tool-capable
AlwaysSupportsTools(a) == TRUE

\* _supports_tool_runner(foundry_run)
_supports_tool_runner(a) == a.run_mcp_tool # "absent"

\* _discover_tool_names(foundry_run)
_discover_tool_names(a) ==
    LET listing == a.list_mcp_tools IN
    IF listing.kind # "list" THEN DiscoveryUnavailable
    ELSE [available |-> TRUE,
          names |-> { strip(listing.tools[i].v) :
                        i \in { j \in 1..Len(listing.tools) :
                                  listing.tools[j].t = "str" /\ strip(listing.tools[j].v) # "" } }]

\* a variant of _tool_available that ignores discovery
AlwaysAvailable(tool_name, discovered) == TRUE

\* _tool_available(tool_name, discovered_tools)
_tool_available(tool_name, discovered) ==
    IF ~discovered.available THEN TRUE ELSE tool_name \in discovered.names

\* lines 223-226: a result that is no dict is wrapped in one
AsDict(res) == IF res.t = "dict" THEN res ELSE JDict(<<JItem("result", res)>>)

\* the tool names run_grounding_verifier passes to _run_mcp_tool
VerifierTools ==
    {"microsoft_docs_search", "microsoft_code_sample_search", "microsoft_docs_fetch"}

\* the tool names _run_search_tool is given when called directly
GatewayNames ==
    VerifierTools
    \cup { "not_a_real_tool", "execute_code", "", "  MICROSOFT_DOCS_SEARCH  ",
           "Microsoft_Docs_Fetch", "microsoft_docs_search; rm -rf /" }

\* lines 215-218: the policy's decisions on those names
PolicyDecisions ==
    [name \in GatewayNames |->
        [allowed |-> is_tool_allowed(PyStr(name)), approved |-> approval_handler(PyStr(name))]]

\* what the actor's run_mcp_tool does when called with the shape-th argument
\* shape, k being the result it would return
InvokerOutcome(a, shape, k) ==
    IF a.run_mcp_tool = "raises" THEN Raises
    ELSE IF a.run_mcp_tool = "throttles" THEN Throttles
    ELSE IF shape < a.shape THEN Raises
    ELSE Returns(k)

\* a variant of _run_mcp_tool that does not consult the tool policy
RunMcpToolWithoutPolicy(a, tool_name, outcome, results) ==
    IF ~_supports_tool_runner(a)
    THEN [raised |-> TRUE, reached |-> FALSE, value |-> JOther]
    ELSE IF outcome.kind # "return"
    THEN [raised |-> TRUE, reached |-> TRUE, value |-> JOther]
    ELSE [raised |-> FALSE, reached |-> TRUE, value |-> AsDict(results[outcome.k])]

\* _run_mcp_tool(foundry_run, tool_name, arguments), given what the invoker
\* does if called: [raised, reached, value]; reached tells whether the
\* invoker was called at all
_run_mcp_tool(a, tool_name, outcome, results) ==
    LET allowed  == PolicyDecisions[tool_name].allowed
        approved == PolicyDecisions[tool_name].approved
    IN
    IF allowed.raised \/ ~allowed.value
    THEN [raised |-> TRUE, reached |-> FALSE, value |-> JOther]
    ELSE IF approved.raised \/ ~approved.value
    THEN [raised |-> TRUE, reached |-> FALSE, value |-> JOther]
    ELSE IF ~_supports_tool_runner(a)
    THEN [raised |-> TRUE, reached |-> FALSE, value |-> JOther]
    ELSE IF outcome.kind # "return"
    THEN [raised |-> TRUE, reached |-> TRUE, value |-> JOther]
    ELSE LET res == results[outcome.k] IN
         [raised |-> FALSE, reached |-> TRUE, value |-> AsDict(res)]

\* bool(payload) of a dict
Truthy(payload) == Len(payload.items) > 0

Min(a, b) == IF a < b THEN a ELSE b

(***************************************************************************)
(* run_grounding_verifier, step by step: one action per call of the        *)
(* external actor, with the code that follows it up to the next call       *)
(***************************************************************************)

\* the values a call computes from its arguments alone, for every argument,
\* and those it computes from a payload alone, for every payload
OfflineGrounds == [q \in Questions |-> [d \in Diagnoses |-> _offline_ground(q, d)]]

SearchQueries == [q \in Questions |-> [d \in Diagnoses |-> _build_search_queries(q, d)]]

SearchHits ==
    [payload \in { AsDict(DocsResults[k]) : k \in 1..Len(DocsResults) }
                   \cup { AsDict(CodeResults[k]) : k \in 1..Len(CodeResults) }
        |-> _extract_search_hits(payload)]

FetchedContents ==
    [payload \in { AsDict(FetchResults[k]) : k \in 1..Len(FetchResults) }
        |-> _extract_fetched_content(payload)]

\* the results of microsoft_code_sample_search that hold no more samples
\* than the top_k = 2 of line 470 asks for
TopKResults ==
    { k \in 1..Len(CodeResults) : Len(SearchHits[AsDict(CodeResults[k])]) <= MaxCodeHits }

CanStart == pc \in {"idle", "done", "raised"} /\ call_no < MaxCalls

\* the argument binding and the locals at the entry of a call
Enter(q, d, off, fr) ==
    /\ call_no' = call_no + 1
    /\ question' = q
    /\ diagnosis_result' = d
    /\ offline' = off
    /\ foundry_run' = fr
    /\ docs_hits' = <<>>
    /\ code_sample_hits' = <<>>
    /\ hits' = <<>>
    /\ evidence' = <<>>
    /\ idx' = 1
    /\ attempt' = 1
    /\ model_output' = 0
    /\ model_result' = NoResult
    /\ throttle_seen' = FALSE
    /\ throttled_prior' = (throttled_prior \/ throttle_seen)
    /\ UNCHANGED <<cache, actor, policy_call>>
    /\ UNCHANGED << apiVars, otherVars >>

\* a variant of StartOffline that cites what the Evidence Cache holds
StartOfflineFromCache(q, d, off, fr) ==
    /\ CanStart
    /\ off \/ fr = "None"
    /\ Enter(q, d, off, fr)
    /\ queries' = <<>>
    /\ discovered_tools' = DiscoveryUnavailable
    /\ calls_made' = ZeroCalls
    /\ result' = IF DOMAIN cache = {} THEN OfflineGrounds[q][d]
                 ELSE LET url == CHOOSE u \in DOMAIN cache : TRUE IN
                      _fallback_ground(q, <<Citation("Cached", url, cache[url])>>, d)
    /\ mode' = "offline_stub"
    /\ pc' = "done"

\* a variant of StartOffline that tests the offline flag after discovery
StartOfflineAfterDiscovery(q, d, off, fr) ==
    /\ CanStart
    /\ off \/ fr = "None"
    /\ Enter(q, d, off, fr)
    /\ queries' = <<>>
    /\ discovered_tools' = DiscoveryUnavailable
    /\ calls_made' = [ZeroCalls EXCEPT
                          !.list = IF fr = "actor" /\ actor.list_mcp_tools.kind # "absent"
                                   THEN 1 ELSE 0]
    /\ result' = OfflineGrounds[q][d]
    /\ mode' = "offline_stub"
    /\ pc' = "done"

\* lines 395-409: offline requested, or no actor: the offline stub
StartOffline(q, d, off, fr) ==
    /\ CanStart
    /\ off \/ fr = "None"
    /\ Enter(q, d, off, fr)
    /\ queries' = <<>>
    /\ discovered_tools' = DiscoveryUnavailable
    /\ calls_made' = ZeroCalls
    /\ result' = OfflineGrounds[q][d]
    /\ mode' = "offline_stub"
    /\ pc' = "done"

\* lines 411-414, 547-556: an actor without a callable run_mcp_tool
StartNoTools(q, d) ==
    /\ CanStart
    /\ ~_supports_tool_runner(actor)
    /\ Enter(q, d, FALSE, "actor")
    /\ queries' = <<>>
    /\ discovered_tools' = DiscoveryUnavailable
    /\ calls_made' = ZeroCalls
    /\ result' = NoResult
    /\ mode' = "running"
    /\ pc' = "synth"

\* lines 414-432: the queries are built and discovery is attempted
StartWithTools(q, d) ==
    /\ CanStart
    /\ _supports_tool_runner(actor)
    /\ Enter(q, d, FALSE, "actor")
    /\ queries' = SearchQueries[q][d]
    /\ discovered_tools' = _discover_tool_names(actor)
    /\ calls_made' = [ZeroCalls EXCEPT !.list = IF actor.list_mcp_tools.kind # "absent" THEN 1 ELSE 0]
    /\ result' = NoResult
    /\ mode' = "running"
    /\ pc' = "docs"

\* lines 495-506: the hits selected once both searches are over
SelectHits(docs, code) ==
    LET merged == _merge_hits(docs, code) IN
    SubSeq(merged, 1, Min(Len(merged), MaxSelectedHits))

\* the end of the code-sample loop: hits are selected, and the fetch loop or
\* (with no hit) the synthesis follows
EndCodeSearch(code) ==
    /\ code_sample_hits' = <<>>
    /\ docs_hits' = <<>>
    /\ hits' = SelectHits(docs_hits, code)
    /\ idx' = 1
    /\ attempt' = 1
    /\ pc' = IF Len(SelectHits(docs_hits, code)) = 0 THEN "synth" ELSE "fetch"

\* a variant of EndDocsQuery that goes on to the next query whatever the
\* number of hits
EndDocsQueryUntilExhausted(new_hits) ==
    /\ docs_hits' = new_hits
    /\ attempt' = 1
    /\ IF idx >= Len(queries)
       THEN idx' = 1 /\ pc' = "code"
       ELSE idx' = idx + 1 /\ pc' = "docs"

\* lines 443-461: the end of one iteration of the documentation-search loop
EndDocsQuery(new_hits) ==
    /\ docs_hits' = new_hits
    /\ attempt' = 1
    /\ IF Len(new_hits) >= MaxDocsHits \/ idx >= Len(queries)
       THEN idx' = 1 /\ pc' = "code"
       ELSE idx' = idx + 1 /\ pc' = "docs"

\* lines 434-461 with a tool discovery does not list: _run_search_tool
\* returns None for every query without calling the actor
DocsSearchSkipped ==
    /\ pc = "docs"
    /\ ~_tool_available("microsoft_docs_search", discovered_tools)
    /\ pc' = "code"
    /\ idx' = 1
    /\ attempt' = 1
    /\ UNCHANGED << cache, actor, call_no, question, diagnosis_result, offline, foundry_run,
                    queries, discovered_tools, docs_hits, code_sample_hits, hits, evidence,
                    model_output, model_result, result, mode, calls_made, throttle_seen,
                    throttled_prior, policy_call >>
    /\ UNCHANGED << apiVars, otherVars >>

\* lines 235-255, 436-461: one attempt of microsoft_docs_search with the
\* argument shape "attempt", for the query "idx"
DocsSearchAttempt(k) ==
    /\ pc = "docs"
    /\ _tool_available("microsoft_docs_search", discovered_tools)
    /\ LET outcome == InvokerOutcome(actor, attempt, k)
           r == _run_mcp_tool(actor, "microsoft_docs_search", outcome, DocsResults)
       IN
       /\ calls_made' = [calls_made EXCEPT !.docs = @ + IF r.reached THEN 1 ELSE 0]
       /\ throttle_seen' = (throttle_seen \/ (r.reached /\ outcome.kind = "throttle"))
       /\ IF r.raised
          THEN IF attempt < SearchShapes
               THEN attempt' = attempt + 1 /\ UNCHANGED <<docs_hits, idx, pc>>
               ELSE EndDocsQuery(docs_hits)
          ELSE EndDocsQuery(IF Truthy(r.value)
                            THEN _merge_hits(docs_hits, SearchHits[r.value])
                            ELSE docs_hits)
    /\ UNCHANGED << cache, actor, call_no, question, diagnosis_result, offline, foundry_run,
                    queries, discovered_tools, code_sample_hits, hits, evidence,
                    model_output, model_result, result, mode, throttled_prior, policy_call >>
    /\ UNCHANGED << apiVars, otherVars >>

\* lines 463-493 with a tool discovery does not list
CodeSearchSkipped ==
    /\ pc = "code"
    /\ ~_tool_available("microsoft_code_sample_search", discovered_tools)
    /\ EndCodeSearch(code_sample_hits)
    /\ UNCHANGED << cache, actor, call_no, question, diagnosis_result, offline, foundry_run,
                    queries, discovered_tools, evidence, model_output, model_result, result, mode,
                    calls_made, throttle_seen, throttled_prior, policy_call >>
    /\ UNCHANGED << apiVars, otherVars >>

\* a variant of EndCodeQuery that goes through all the queries
EndCodeQueryAllQueries(new_hits) ==
    IF Len(new_hits) >= MaxCodeHits \/ idx >= Len(queries)
    THEN EndCodeSearch(new_hits)
    ELSE /\ code_sample_hits' = new_hits
         /\ idx' = idx + 1
         /\ attempt' = 1
         /\ UNCHANGED <<docs_hits, hits, pc>>

\* lines 472-493: the end of one iteration of the code-sample loop
EndCodeQuery(new_hits) ==
    IF Len(new_hits) >= MaxCodeHits \/ idx >= Min(Len(queries), CodeQueries)
    THEN EndCodeSearch(new_hits)
    ELSE /\ code_sample_hits' = new_hits
         /\ idx' = idx + 1
         /\ attempt' = 1
         /\ UNCHANGED <<docs_hits, hits, pc>>

\* lines 235-255, 463-493: one attempt of microsoft_code_sample_search
CodeSearchAttempt(k) ==
    /\ pc = "code"
    /\ _tool_available("microsoft_code_sample_search", discovered_tools)
    /\ LET outcome == InvokerOutcome(actor, attempt, k)
           r == _run_mcp_tool(actor, "microsoft_code_sample_search", outcome, CodeResults)
       IN
       /\ calls_made' = [calls_made EXCEPT !.code = @ + IF r.reached THEN 1 ELSE 0]
       /\ throttle_seen' = (throttle_seen \/ (r.reached /\ outcome.kind = "throttle"))
       /\ IF r.raised
          THEN IF attempt < SearchShapes
               THEN attempt' = attempt + 1 /\ UNCHANGED <<code_sample_hits, docs_hits, hits, idx, pc>>
               ELSE EndCodeQuery(code_sample_hits)
          ELSE EndCodeQuery(IF Truthy(r.value)
                            THEN _merge_hits(code_sample_hits, SearchHits[r.value])
                            ELSE code_sample_hits)
    /\ UNCHANGED << cache, actor, call_no, question, diagnosis_result, offline, foundry_run,
                    queries, discovered_tools, evidence, model_output, model_result, result, mode,
                    throttled_prior, policy_call >>
    /\ UNCHANGED << apiVars, otherVars >>

DefaultSnippet == "See Microsoft Learn documentation for details."

\* a variant of EvidenceOf that prefers the hit's snippet to the content
EvidenceOfHitSnippetFirst(hit, content) ==
    LET snippet == IF hit.snippet # "" THEN hit.snippet ELSE _to_snippet(content) IN
    Citation(hit.title, hit.url,
             _trim_words(IF snippet = "" THEN DefaultSnippet ELSE snippet, MaxSnippetWords))

\* lines 537-546: the evidence item of a hit, given the content resolved
EvidenceOf(hit, content) ==
    LET snippet == IF content # "" THEN _to_snippet(content) ELSE hit.snippet IN
    Citation(hit.title, hit.url,
             _trim_words(IF snippet = "" THEN DefaultSnippet ELSE snippet, MaxSnippetWords))

\* lines 537-546 and the loop step: the Citation is built (its validators
\* run; a ValidationError is not caught and leaves the call) and appended
EndFetch(content) ==
    LET c == EvidenceOf(hits[idx], content) IN
    IF ~CitationAccepted(c)
    THEN /\ pc' = "raised"
         /\ mode' = "raised"
         /\ UNCHANGED <<evidence, idx, attempt, hits>>
    ELSE /\ evidence' = Append(evidence, c)
         /\ attempt' = 1
         /\ mode' = mode
         /\ IF idx >= Len(hits)
            THEN idx' = 1 /\ hits' = <<>> /\ pc' = "synth"
            ELSE idx' = idx + 1 /\ hits' = hits /\ pc' = "fetch"

\* lines 507-513: the cache holds content for the hit's URL
FetchCached ==
    /\ pc = "fetch"
    /\ cache_get(cache, hits[idx].url) # ""
    /\ calls_made' = [calls_made EXCEPT !.cache = @ + 1]
    /\ EndFetch(cache_get(cache, hits[idx].url))
    /\ UNCHANGED << cache, actor, call_no, question, diagnosis_result, offline, foundry_run,
                    queries, discovered_tools, docs_hits, code_sample_hits, model_output, model_result,
                    result, throttle_seen, throttled_prior, policy_call >>
    /\ UNCHANGED << apiVars, otherVars >>

\* lines 514-523 with a fetch tool discovery does not list
FetchSkipped ==
    /\ pc = "fetch"
    /\ cache_get(cache, hits[idx].url) = ""
    /\ ~_tool_available("microsoft_docs_fetch", discovered_tools)
    /\ calls_made' = [calls_made EXCEPT !.cache = @ + 1]
    /\ EndFetch("")
    /\ UNCHANGED << cache, actor, call_no, question, diagnosis_result, offline, foundry_run,
                    queries, discovered_tools, docs_hits, code_sample_hits, model_output, model_result,
                    result, throttle_seen, throttled_prior, policy_call >>
    /\ UNCHANGED << apiVars, otherVars >>

\* a variant of FetchAttempt that never stores what it fetched
FetchAttemptWithoutStore(k) ==
    /\ pc = "fetch"
    /\ cache_get(cache, hits[idx].url) = ""
    /\ _tool_available("microsoft_docs_fetch", discovered_tools)
    /\ LET outcome == InvokerOutcome(actor, attempt, k)
           r == _run_mcp_tool(actor, "microsoft_docs_fetch", outcome, FetchResults)
           content == IF r.raised THEN "" ELSE FetchedContents[r.value]
       IN
       /\ calls_made' = [calls_made EXCEPT !.fetch = @ + IF r.reached THEN 1 ELSE 0,
                                           !.cache = @ + (IF attempt = 1 THEN 1 ELSE 0)]
       /\ throttle_seen' = (throttle_seen \/ (r.reached /\ outcome.kind = "throttle"))
       /\ IF r.raised /\ attempt < FetchShapes
          THEN /\ attempt' = attempt + 1
               /\ UNCHANGED <<cache, evidence, idx, hits, pc, mode>>
          ELSE /\ cache' = cache
               /\ EndFetch(content)
    /\ UNCHANGED << actor, call_no, question, diagnosis_result, offline, foundry_run,
                    queries, discovered_tools, docs_hits, code_sample_hits, model_output, model_result,
                    result, throttled_prior, policy_call >>
    /\ UNCHANGED << apiVars, otherVars >>

\* lines 258-276, 514-523: one attempt of microsoft_docs_fetch
FetchAttempt(k) ==
    /\ pc = "fetch"
    /\ cache_get(cache, hits[idx].url) = ""
    /\ _tool_available("microsoft_docs_fetch", discovered_tools)
    /\ LET outcome == InvokerOutcome(actor, attempt, k)
           r == _run_mcp_tool(actor, "microsoft_docs_fetch", outcome, FetchResults)
           content == IF r.raised THEN "" ELSE FetchedContents[r.value]
           retried == r.raised /\ attempt < FetchShapes
       IN
       /\ calls_made' =
              [calls_made EXCEPT
                  !.fetch = @ + IF r.reached THEN 1 ELSE 0,
                  !.cache = @ + (IF attempt = 1 THEN 1 ELSE 0)
                              + (IF ~retried /\ content # "" THEN 1 ELSE 0)]
       /\ throttle_seen' = (throttle_seen \/ (r.reached /\ outcome.kind = "throttle"))
       /\ IF r.raised /\ attempt < FetchShapes
          THEN /\ attempt' = attempt + 1
               /\ UNCHANGED <<cache, evidence, idx, hits, pc, mode>>
          ELSE /\ cache' = IF content # "" THEN cache_put(cache, hits[idx].url, content) ELSE cache
               /\ EndFetch(content)
    /\ UNCHANGED << actor, call_no, question, diagnosis_result, offline, foundry_run,
                    queries, discovered_tools, docs_hits, code_sample_hits, model_output, model_result,
                    result, throttled_prior, policy_call >>
    /\ UNCHANGED << apiVars, otherVars >>

RECURSIVE CacheCitations(_, _, _)
\* lines 626-629: each citation's snippet is stored under its URL unless the
\* cache holds something for it
CacheCitations(store, citations, i) ==
    IF i > Len(citations) THEN store
    ELSE CacheCitations(IF cache_get(store, citations[i].url) = ""
                        THEN cache_put(store, citations[i].url, citations[i].snippet)
                        ELSE store,
                        citations, i + 1)

RECURSIVE CacheCitationCalls(_, _, _)
\* lines 626-629: the cache_get and cache_put calls made there
CacheCitationCalls(store, citations, i) ==
    IF i > Len(citations) THEN 0
    ELSE IF cache_get(store, citations[i].url) = ""
         THEN 2 + CacheCitationCalls(cache_put(store, citations[i].url, citations[i].snippet),
                                     citations, i + 1)
         ELSE 1 + CacheCitationCalls(store, citations, i + 1)

\* lines 576-582: the synthesis: [raised, value]; value is the validated
\* GroundedExplanation
Synthesis(out) ==
    IF out.raises THEN [raised |-> TRUE, value |-> NoResult]
    ELSE LET data == extract_json(out) IN
         IF data.raised THEN [raised |-> TRUE, value |-> NoResult]
         ELSE IF ~GroundedExplanationAccepted(data.value) THEN [raised |-> TRUE, value |-> NoResult]
         ELSE [raised |-> FALSE,
               value |-> GroundedExplanation(data.value.question_id, data.value.explanation,
                                             data.value.citations)]

Syntheses == [k \in 1..Len(ModelOutputs) |-> Synthesis(ModelOutputs[k])]

\* lines 609-610: the evidence handed to the fallback on a low-signal result
LowSignalEvidence(res, gathered) == IF Len(res.citations) > 0 THEN res.citations ELSE gathered

\* lines 567-643: the model caller is invoked and the call returns
Synthesize(k) ==
    /\ pc = "synth"
    /\ model_output' = k
    /\ LET s == Syntheses[k] IN
       IF s.raised
       THEN /\ model_result' = NoResult
            /\ result' = _fallback_ground(question, evidence, diagnosis_result)
            /\ mode' = "fallback_exception"
            /\ cache' = cache
            /\ calls_made' = [calls_made EXCEPT !.model = @ + 1]
       ELSE IF _is_low_signal_explanation(s.value.explanation)
       THEN /\ model_result' = s.value
            /\ result' = _fallback_ground(question, LowSignalEvidence(s.value, evidence),
                                          diagnosis_result)
            /\ mode' = "fallback_low_signal"
            /\ cache' = cache
            /\ calls_made' = [calls_made EXCEPT !.model = @ + 1]
       ELSE /\ model_result' = s.value
            /\ result' = s.value
            /\ mode' = "online"
            /\ cache' = CacheCitations(cache, s.value.citations, 1)
            /\ calls_made' = [calls_made EXCEPT
                                  !.model = @ + 1,
                                  !.cache = @ + CacheCitationCalls(cache, s.value.citations, 1)]
    /\ pc' = "done"
    /\ UNCHANGED << actor, call_no, question, diagnosis_result, offline, foundry_run,
                    queries, discovered_tools, docs_hits, code_sample_hits, hits, evidence,
                    idx, attempt, throttle_seen, throttled_prior, policy_call >>
    /\ UNCHANGED << apiVars, otherVars >>

\* the grounding verifier before its first call
GroundingInit ==
    /\ cache = <<>>
    /\ actor \in Actors
    /\ call_no = 0
    /\ pc = "idle"
    /\ question = CHOOSE q \in Questions : q.id = "1"
    /\ diagnosis_result = NoDiagnosis
    /\ offline = FALSE
    /\ foundry_run = "None"
    /\ queries = <<>>
    /\ discovered_tools = DiscoveryUnavailable
    /\ docs_hits = <<>>
    /\ code_sample_hits = <<>>
    /\ hits = <<>>
    /\ evidence = <<>>
    /\ idx = 1
    /\ attempt = 1
    /\ model_output = 0
    /\ model_result = NoResult
    /\ result = NoResult
    /\ mode = "idle"
    /\ calls_made = ZeroCalls
    /\ throttle_seen = FALSE
    /\ throttled_prior = FALSE
    /\ policy_call = NoPolicyCall

Init == GroundingInit /\ ApiInit(60, 60) /\ OtherInit

Next ==
    \/ \E q \in Questions, d \in Diagnoses, off \in BOOLEAN, fr \in {"None", "actor"} :
           StartOffline(q, d, off, fr)
    \/ \E q \in Questions, d \in Diagnoses : StartNoTools(q, d)
    \/ \E q \in Questions, d \in Diagnoses : StartWithTools(q, d)
    \/ DocsSearchSkipped
    \/ \E k \in 1..Len(DocsResults) : DocsSearchAttempt(k)
    \/ CodeSearchSkipped
    \/ \E k \in TopKResults : CodeSearchAttempt(k)
    \/ FetchCached
    \/ FetchSkipped
    \/ \E k \in 1..Len(FetchResults) : FetchAttempt(k)
    \/ \E k \in 1..Len(ModelOutputs) : Synthesize(k)

Spec == Init /\ [][Next]_vars

\* the position of a call: the loop, the query or hit, the argument shape
Position == << pc, idx, attempt >>

\* the call in progress moves on to its next position: the next argument
\* shape, the next query or hit, the next loop, or its end.  Every step of
\* a call changes its position, and the actor returns or raises (it does
\* not hang), so a call in progress keeps moving
CallAdvances ==
    /\ pc \in {"docs", "code", "fetch", "synth"}
    /\ \E p \in {"docs", "code", "fetch", "synth", "done", "raised"}, i \in 1..4,
          a \in 1..SearchShapes :
           /\ pc' = p /\ idx' = i /\ attempt' = a
           /\ << p, i, a >> # Position

SpecFair == Spec /\ WF_Position(CallAdvances)

\* the grounding verifier with a code-sample tool that may also return more
\* samples than asked for
NextAnySamples ==
    \/ Next
    \/ \E k \in (1..Len(CodeResults)) \ TopKResults : CodeSearchAttempt(k)

SpecAnySamples == Init /\ [][NextAnySamples]_vars

(***************************************************************************)
(* The tool policy called directly: tool_policy.py has no state, so a      *)
(* behaviour is a sequence of calls, each recorded with its outcome        *)
(***************************************************************************)

NonStrings ==
    { [t |-> "NoneType", v |-> "None"], [t |-> "int", v |-> "123"],
      [t |-> "list", v |-> "['microsoft_docs_search']"],
      [t |-> "dict", v |-> "{'name': 'microsoft_docs_search'}"] }

BaseNames == ALLOWED_MCP_TOOLS \cup {"not_a_real_tool", "execute_code", ""}

NamePrefixes == {"", "  "}

NameSuffixes == {"", "  ", "\n", "; rm -rf /", "\nmicrosoft_docs_fetch"}

OtherNames ==
    { "  MICROSOFT_DOCS_SEARCH  ", "Microsoft_Docs_Fetch", "$(microsoft_docs_search)",
      "microsoft_\ndocs_search", "microsoft docs search", "\tmicrosoft_docs_fetch\r\n",
      "microsoft_docs_search|microsoft_docs_fetch",
      "aaaaaaaaaaaaaaaaaaaaaaaaaaaaaaaaaaaaaaaaaaaaaaaaaaaaaaaaaaaaaaaaa" }

PolicyInputs ==
    NonStrings
    \cup { PyStr(p \o b \o x) : p \in NamePrefixes, b \in BaseNames, x \in NameSuffixes }
    \cup { PyStr(n) : n \in OtherNames }

\* a call of is_tool_allowed(x)
CallIsToolAllowed(x) ==
    /\ policy_call' = [op |-> "is_tool_allowed", input |-> x, out |-> is_tool_allowed(x)]
    /\ UNCHANGED << cache, actor, call_no, pc, question, diagnosis_result, offline,
                    foundry_run, queries, discovered_tools, docs_hits, code_sample_hits,
                    hits, evidence, idx, attempt, model_output, model_result, result, mode,
                    calls_made, throttle_seen, throttled_prior >>
    /\ UNCHANGED << apiVars, otherVars >>

\* a call of approval_handler(x)
CallApprovalHandler(x) ==
    /\ policy_call' = [op |-> "approval_handler", input |-> x, out |-> approval_handler(x)]
    /\ UNCHANGED << cache, actor, call_no, pc, question, diagnosis_result, offline,
                    foundry_run, queries, discovered_tools, docs_hits, code_sample_hits,
                    hits, evidence, idx, attempt, model_output, model_result, result, mode,
                    calls_made, throttle_seen, throttled_prior >>
    /\ UNCHANGED << apiVars, otherVars >>

InitPolicy == Init /\ actor = ThrottledMCPRunner

NextPolicy ==
    \/ \E x \in PolicyInputs : CallIsToolAllowed(x)
    \/ \E x \in PolicyInputs : CallApprovalHandler(x)

SpecPolicy == InitPolicy /\ [][NextPolicy]_vars

(***************************************************************************)
(* The fallback policy called directly: _fallback_ground and               *)
(* _offline_ground are pure, so a behaviour is one call on a question, a   *)
(* diagnosis and an evidence list, recorded with its result                *)
(***************************************************************************)

\* choice lists: with and without letter prefixes, with runs of whitespace,
\* with a lower-case prefix and with a choice that is its prefix alone
ChoiceLists ==
    { <<"A) X", "B) Microsoft Entra ID">>,
      <<"Azure  DNS", " B)   Azure\tFirewall ", "C)">>,
      <<"b) Bicep", "D) ARM templates">> }

RationaleDrafts ==
    { "Identity is handled by Entra ID.", "Azure DNS hosts\ndomains", " Is it so?",
      "Use Bicep!", "Done..", "", " \n " }

FallbackQuestions ==
    { Question("7", dom, "Which one?", ch, key, rat) :
        dom \in {"Security", "Networking"}, ch \in ChoiceLists, key \in 0..1,
        rat \in RationaleDrafts }

FallbackDiagnoses == {NoDiagnosis, DiagnosisResult(""), DiagnosisResult("IDAM")}

EvidenceLists == { <<>>, <<_build_placeholder_citation>>, <<CitA>> }

\* the arguments of the call: a question, a diagnosis and an evidence list
InitFallback ==
    /\ question \in FallbackQuestions
    /\ diagnosis_result \in FallbackDiagnoses
    /\ evidence \in EvidenceLists
    /\ cache = <<>>
    /\ actor = ThrottledMCPRunner
    /\ call_no = 0
    /\ pc = "idle"
    /\ offline = FALSE
    /\ foundry_run = "None"
    /\ queries = <<>>
    /\ discovered_tools = DiscoveryUnavailable
    /\ docs_hits = <<>>
    /\ code_sample_hits = <<>>
    /\ hits = <<>>
    /\ idx = 1
    /\ attempt = 1
    /\ model_output = 0
    /\ model_result = NoResult
    /\ result = NoResult
    /\ mode = "idle"
    /\ calls_made = ZeroCalls
    /\ throttle_seen = FALSE
    /\ throttled_prior = FALSE
    /\ policy_call = NoPolicyCall
    /\ ApiInit(60, 60)
    /\ OtherInit

\* the call _fallback_ground(question, evidence, diagnosis_result)
CallFallbackGround ==
    /\ pc = "idle"
    /\ result' = _fallback_ground(question, evidence, diagnosis_result)
    /\ mode' = "_fallback_ground"
    /\ pc' = "done"
    /\ UNCHANGED << cache, actor, call_no, question, diagnosis_result, offline, foundry_run,
                    queries, discovered_tools, docs_hits, code_sample_hits, hits, evidence,
                    idx, attempt, model_output, model_result, calls_made, throttle_seen,
                    throttled_prior, policy_call >>
    /\ UNCHANGED << apiVars, otherVars >>

\* the call _offline_ground(question, diagnosis_result)
CallOfflineGround ==
    /\ pc = "idle"
    /\ result' = _offline_ground(question, diagnosis_result)
    /\ mode' = "_offline_ground"
    /\ pc' = "done"
    /\ UNCHANGED << cache, actor, call_no, question, diagnosis_result, offline, foundry_run,
                    queries, discovered_tools, docs_hits, code_sample_hits, hits, evidence,
                    idx, attempt, model_output, model_result, calls_made, throttle_seen,
                    throttled_prior, policy_call >>
    /\ UNCHANGED << apiVars, otherVars >>

NextFallback == CallFallbackGround \/ CallOfflineGround

SpecFallback == InitFallback /\ [][NextFallback]_vars

(***************************************************************************)
(* src/src/api.py: the sliding-window rate limiter.  check reads the clock *)
(* before it takes the lock, so a call is two steps: the read, and the     *)
(* locked part                                                             *)
(***************************************************************************)

RECURSIVE Evict(_, _)
\* lines 93-94: while bucket and bucket[0] <= cutoff: bucket.popleft()
Evict(bucket, cutoff) ==
    IF Len(bucket) > 0 /\ bucket[1] <= cutoff THEN Evict(Tail(bucket), cutoff) ELSE bucket

\* lines 95-97: max(1, int(bucket[0] + window_seconds - now) + 1)
RetryAfter(bucket, window_seconds, now) ==
    LET retry_after == (bucket[1] + window_seconds - now) + 1 IN
    IF retry_after < 1 THEN 1 ELSE retry_after

\* lines 85-103, under the lock: the bucket afterwards and what check
\* returns (retry_after 0 stands for None)
CheckBucket(lim, bucket, now) ==
    LET kept == Evict(bucket, now - lim.window_seconds) IN
    IF Len(kept) >= lim.max_requests
    THEN [bucket |-> kept, retry_after |-> RetryAfter(kept, lim.window_seconds, now)]
    ELSE [bucket |-> Append(kept, now), retry_after |-> 0]

\* lines 80-84: check(key) reads the clock (with no limit set it returns None)
CheckReadsClock(t, key) ==
    /\ checks[t].pc = "idle"
    /\ IF limiter.max_requests <= 0
       THEN /\ checked' = [key |-> key, retry_after |-> 0]
            /\ UNCHANGED checks
       ELSE /\ checks' = [checks EXCEPT ![t] = [pc |-> "lock", key |-> key, now |-> clock]]
            /\ UNCHANGED checked
    /\ UNCHANGED << limiter, clock, buckets, admitted, state_store, response >>
    /\ UNCHANGED << groundingVars, otherVars >>

\* lines 85-103: the locked part of check(key), and its return
CheckLocked(t) ==
    /\ checks[t].pc = "lock"
    /\ LET key == checks[t].key
           now == checks[t].now
           r   == CheckBucket(limiter, buckets[key], now)
       IN  /\ buckets' = [buckets EXCEPT ![key] = r.bucket]
           /\ admitted' = IF r.retry_after = 0
                          THEN [admitted EXCEPT ![key] = Append(@, now)]
                          ELSE admitted
           /\ checked' = [key |-> key, retry_after |-> r.retry_after]
    /\ checks' = [checks EXCEPT ![t] = NoCheck]
    /\ UNCHANGED << limiter, clock, state_store, response >>
    /\ UNCHANGED << groundingVars, otherVars >>

\* a second passes
Tick ==
    /\ clock < MaxClock
    /\ clock' = clock + 1
    /\ UNCHANGED << limiter, buckets, admitted, checks, checked, state_store, response >>
    /\ UNCHANGED << groundingVars, otherVars >>

\* API_RATE_LIMIT_REQUESTS_PER_MINUTE and API_RATE_LIMIT_WINDOW_SECONDS as
\* set in the environment: lines 178-187 build a limiter for 1 or more
\* requests
RateLimitSettings ==
    { [max_requests |-> 1, window_seconds |-> 60],
      [max_requests |-> 1, window_seconds |-> 1],
      [max_requests |-> 2, window_seconds |-> 2] }

InitRateLimit ==
    /\ GroundingInit
    /\ actor = ThrottledMCPRunner
    /\ \E s \in RateLimitSettings : ApiInit(s.max_requests, s.window_seconds)
    /\ OtherInit

NextRateLimit ==
    \/ \E t \in Threads, key \in {"user:u1", "ip:testclient"} : CheckReadsClock(t, key)
    \/ \E t \in Threads : CheckLocked(t)
    \/ Tick

SpecRateLimit == InitRateLimit /\ [][NextRateLimit]_vars

(***************************************************************************)
(* src/src/api.py: the /v1 endpoints with the token validator enabled.     *)
(* Requests are served one at a time; an action is one request, from the   *)
(* rate limit to the response                                              *)
(***************************************************************************)

\* value is a str with something other than whitespace in it
NonBlankStr(value) == value.t = "str" /\ strip(value.v) # ""

\* _claim_principal(claims): "" stands for None
_claim_principal(claims) ==
    IF claims.is_none \/ (claims.oid = Absent /\ claims.sub = Absent /\ claims.tid = Absent)
    THEN ""
    ELSE IF NonBlankStr(claims.oid) THEN strip(claims.oid.v)
    ELSE IF NonBlankStr(claims.sub) THEN strip(claims.sub.v)
    ELSE ""

\* a variant of _effective_user_id that trusts the client's user_id
RequestedUserId(requested_user_id, claims) ==
    IF ~claims.is_none /\ _claim_principal(claims) = ""
    THEN [raised |-> TRUE, value |-> "401"]
    ELSE [raised |-> FALSE, value |-> requested_user_id]

\* _effective_user_id(requested_user_id, claims): [raised, value]; raised
\* stands for HTTPException(status_code=401)
_effective_user_id(requested_user_id, claims) ==
    IF claims.is_none THEN [raised |-> FALSE, value |-> requested_user_id]
    ELSE LET principal == _claim_principal(claims) IN
         IF principal = "" THEN [raised |-> TRUE, value |-> "401"]
         ELSE IF NonBlankStr(claims.tid)
              THEN [raised |-> FALSE, value |-> strip(claims.tid.v) \o ":" \o principal]
              ELSE [raised |-> FALSE, value |-> "auth:" \o principal]

\* _rate_limit_key(request, claims); the client's host is "testclient"
_rate_limit_key(claims) ==
    LET principal == _claim_principal(claims) IN
    IF principal # "" THEN "user:" \o principal ELSE "ip:testclient"

RECURSIVE SubRuns(_, _, _)
\* re.sub(r"[^A-Za-z0-9._-]+", "_", s): every maximal run of other
\* characters becomes one "_"
SubRuns(s, i, in_run) ==
    IF i > Len(s) THEN ""
    ELSE IF CharAt(s, i) \in UpperSet \cup LowerSet \cup DigitSet \cup {".", "_", "-"}
         THEN CharAt(s, i) \o SubRuns(s, i + 1, FALSE)
         ELSE (IF in_run THEN "" ELSE "_") \o SubRuns(s, i + 1, TRUE)

\* state_store.py: _sanitize_user_id(user_id)
_sanitize_user_id(user_id) ==
    LET cleaned == rstrip(SubRuns(strip(user_id), 1, FALSE), {".", "_"})
        inner   == SubSeq(cleaned, LStripPos(cleaned, 1, {".", "_"}), Len(cleaned))
    IN  IF inner = "" THEN "default" ELSE inner

\* the tokens' claims: "sub" alone, all three, padded values with a blank
\* "oid", "tid" alone, and a "sub" that is no str
TokenClaims ==
    { Claims(Absent, PyStr("u1"), Absent),
      Claims(PyStr("o1"), PyStr("u1"), PyStr("t1")),
      Claims(PyStr("  "), PyStr(" u1 "), PyStr(" t1 ")),
      Claims(Absent, Absent, PyStr("t1")),
      Claims(Absent, [t |-> "int", v |-> "7"], Absent) }

\* what the client sends: its user_id and, for a session, the minutes
Requests ==
    { [user_id |-> u.user_id, minutes |-> u.minutes, claims |-> c] :
        u \in { [user_id |-> "spoofed-user", minutes |-> 15],
                [user_id |-> "any-other-user", minutes |-> 45] },
        c \in TokenClaims }

\* what the requests compute from their arguments alone
EffectiveUserIds == [req \in Requests |-> _effective_user_id(req.user_id, req.claims)]

RateLimitKeyOf == [c \in TokenClaims |-> _rate_limit_key(c)]

SanitizedUserIds ==
    [user_id \in { EffectiveUserIds[req].value : req \in Requests }
        |-> _sanitize_user_id(user_id)]

\* StateStore.load(user_id)
load(user_id) ==
    LET key == SanitizedUserIds[user_id] IN
    IF key \in DOMAIN state_store THEN state_store[key] ELSE StudentState

\* StateStore.save(user_id, state): the store afterwards
save(user_id, state) ==
    LET key == SanitizedUserIds[user_id] IN
    [k \in (DOMAIN state_store) \cup {key} |-> IF k = key THEN state ELSE state_store[k]]

\* lines 228-239: _enforce_rate_limit(request, claims): the limiter's state
\* afterwards, and retry_after: 0 when it returns, else the Retry-After of
\* the 429 it raises
_enforce_rate_limit(claims) ==
    LET key == RateLimitKeyOf[claims]
        r   == CheckBucket(limiter, buckets[key], clock)
    IN  IF limiter.max_requests <= 0
        THEN [buckets |-> buckets, admitted |-> admitted, checked |-> checked,
              retry_after |-> 0]
        ELSE [buckets |-> [buckets EXCEPT ![key] = r.bucket],
              admitted |-> IF r.retry_after = 0
                           THEN [admitted EXCEPT ![key] = Append(@, clock)]
                           ELSE admitted,
              checked |-> [key |-> key, retry_after |-> r.retry_after],
              retry_after |-> r.retry_after]

\* the response of a request the rate limit or the claims stop
Rejected(endpoint, req, status, retry_after) ==
    [endpoint |-> endpoint, claims |-> req.claims, user_id |-> req.user_id,
     status |-> status, retry_after |-> retry_after, effective_user_id |-> "",
     loaded |-> {}, saved |-> {}, state |-> StudentState]

\* what a request does: the rate limit, the effective user id, then the
\* endpoint's work on the state loaded (changed: the state it saves, if it
\* saves): the limiter and the store afterwards, and the response
Served(endpoint, req, saves, changed) ==
    LET limit == _enforce_rate_limit(req.claims)
        eff   == EffectiveUserIds[req]
    IN  IF limit.retry_after # 0
        THEN [limit |-> limit, state_store |-> state_store,
              response |-> Rejected(endpoint, req, 429, limit.retry_after)]
        ELSE IF eff.raised
        THEN [limit |-> limit, state_store |-> state_store,
              response |-> Rejected(endpoint, req, 401, 0)]
        ELSE LET key   == SanitizedUserIds[eff.value]
                 state == IF saves THEN changed[load(eff.value)] ELSE load(eff.value)
             IN  [limit |-> limit,
                  state_store |-> IF saves THEN save(eff.value, state) ELSE state_store,
                  response |->
                      [endpoint |-> endpoint, claims |-> req.claims, user_id |-> req.user_id,
                       status |-> 200, retry_after |-> 0, effective_user_id |-> eff.value,
                       loaded |-> {key}, saved |-> IF saves THEN {key} ELSE {},
                       state |-> state]]

\* the student states the requests of the model can store
StudentStates == [preferred_minutes : {30, 15, 45}, last_session : {"None", "set"}]

\* the request's effects take place
Respond(served) ==
    /\ buckets' = served.limit.buckets
    /\ admitted' = served.limit.admitted
    /\ checked' = served.limit.checked
    /\ state_store' = served.state_store
    /\ response' = served.response

\* lines 429-437: GET /v1/state/{user_id}
get_state(req) ==
    /\ Respond(Served("get_state", req, FALSE, [state \in StudentStates |-> state]))
    /\ UNCHANGED << limiter, clock, checks >>
    /\ UNCHANGED << groundingVars, otherVars >>

\* lines 440-523: POST /v1/session/start
start_session(req) ==
    /\ Respond(Served("start_session", req, TRUE,
                       [state \in StudentStates |->
                           [state EXCEPT !.preferred_minutes = req.minutes]]))
    /\ UNCHANGED << limiter, clock, checks >>
    /\ UNCHANGED << groundingVars, otherVars >>

\* lines 526-660: POST /v1/session/submit
submit_session(req) ==
    /\ Respond(Served("submit_session", req, TRUE,
                       [state \in StudentStates |-> [state EXCEPT !.last_session = "set"]]))
    /\ UNCHANGED << limiter, clock, checks >>
    /\ UNCHANGED << groundingVars, otherVars >>

\* the limiter admits two requests a minute for each key
InitAuth == GroundingInit /\ actor = ThrottledMCPRunner /\ ApiInit(2, 60) /\ OtherInit

NextAuth ==
    \/ \E req \in Requests : get_state(req)
    \/ \E req \in Requests : start_session(req)
    \/ \E req \in Requests : submit_session(req)

SpecAuth == InitAuth /\ [][NextAuth]_vars

(***************************************************************************)
(* src/src/agents/misconception.py: run_misconception called directly, one *)
(* call on an exam, an answer sheet and what the model caller gives        *)
(***************************************************************************)

\* schemas.py:12-21
MISCONCEPTION_IDS ==
    <<"SRM", "IDAM", "REGION", "PRICING", "GOV", "SEC", "SERVICE_SCOPE", "TERMS">>

\* lines 40-48
DOMAIN_TO_MISCONCEPTION ==
    [d \in {"Cloud Concepts", "Azure Architecture", "Security", "Cost Management",
            "Governance", "Identity", "Azure Services"} |->
        CASE d = "Cloud Concepts" -> "SRM"
          [] d = "Azure Architecture" -> "REGION"
          [] d = "Security" -> "IDAM"
          [] d = "Cost Management" -> "PRICING"
          [] d = "Governance" -> "GOV"
          [] d = "Identity" -> "IDAM"
          [] d = "Azure Services" -> "SERVICE_SCOPE"]

\* lines 61-62
_default_misconception_for_domain(domain) ==
    IF domain \in DOMAIN DOMAIN_TO_MISCONCEPTION THEN DOMAIN_TO_MISCONCEPTION[domain]
    ELSE "TERMS"

\* lines 65-66
_compact_text(value) == strip(join(split(value)))

\* lines 69-70: chr(ord('A') + index) and ")": [raised, value]; chr raises
\* ValueError outside range(0x110000); the characters from "@" to "Z" are
\* written out
_choice_label(index) ==
    [raised |-> index + 65 < 0 \/ index + 65 >= 1114112,
     value |-> IF index \in (-1)..25 THEN CharAt("@" \o UpperChars, index + 2) \o ")"
               ELSE "?)"]

\* lines 73-77: _choice_text of misconception.py, which keeps a choice that
\* is nothing but a prefix
MisconceptionChoiceText(q, index) ==
    IF index < 0 \/ index >= Len(q.choices) THEN "Unknown"
    ELSE LET text == _compact_text(q.choices[index + 1])
             rest == strip(ChoicePrefixSub(text))
         IN  IF rest = "" THEN text ELSE rest

\* lines 80-81: _choice_ref of misconception.py: [raised, value]
MisconceptionChoiceRef(q, index) ==
    LET label == _choice_label(index) IN
    [raised |-> label.raised,
     value |-> label.value \o " " \o MisconceptionChoiceText(q, index)]

\* a number in hundredths, as a JSON number or a numeric string; "nan";
\* "other" (float() raises TypeError or ValueError); "absent"
Confidence(t, v) == [t |-> t, v |-> v]

\* lines 84-93: the confidence in hundredths, or NaN (which neither
\* comparison catches)
_coerce_confidence(value, default) ==
    IF value.t \in {"other", "absent"} THEN [nan |-> FALSE, v |-> default]
    ELSE IF value.t = "nan" THEN [nan |-> TRUE, v |-> 0]
    ELSE IF value.v < 0 THEN [nan |-> FALSE, v |-> 0]
    ELSE IF value.v > 100 THEN [nan |-> FALSE, v |-> 100]
    ELSE [nan |-> FALSE, v |-> value.v]

\* answers.answers.get(question.id): is_none when the sheet has no answer
AnswerOf(answers, id) ==
    IF id \in DOMAIN answers THEN [is_none |-> FALSE, v |-> answers[id]]
    ELSE [is_none |-> TRUE, v |-> 0]

\* lines 96-110: [raised, value]
_default_why(q, student_answer, correct) ==
    LET compact   == _compact_text(q.rationale_draft)
        rationale == IF compact = "" THEN "Review this AZ-900 concept." ELSE compact
        correct_choice == MisconceptionChoiceRef(q, q.answer_key)
        selected_choice == MisconceptionChoiceRef(q, student_answer.v)
    IN
    IF correct_choice.raised THEN [raised |-> TRUE, value |-> ""]
    ELSE IF correct THEN [raised |-> FALSE, value |-> "Correct. " \o rationale]
    ELSE IF student_answer.is_none
    THEN [raised |-> FALSE,
          value |-> "No answer provided. Correct answer: " \o correct_choice.value
                    \o ". Why: " \o rationale]
    ELSE IF selected_choice.raised THEN [raised |-> TRUE, value |-> ""]
    ELSE [raised |-> FALSE,
          value |-> "Your answer: " \o selected_choice.value \o ". Correct answer: "
                    \o correct_choice.value \o ". Why: " \o rationale]

\* lines 52-58
_LOW_SIGNAL_WHY_MARKERS ==
    {"indicates confusion", "shows confusion", "selected choice", "correct is choice",
     "correct answer is choice"}

\* lines 113-118
_is_low_signal_why(why) ==
    LET clean == _compact_text(why) IN
    IF Len(clean) < 24 THEN TRUE
    ELSE \E marker \in _LOW_SIGNAL_WHY_MARKERS : contains(lower(clean), marker)

\* lines 121-129; model_why is a tagged value
_merge_why(default_why, model_why, trust_model_reasoning) ==
    IF ~trust_model_reasoning \/ model_why.t # "str" THEN default_why
    ELSE LET clean_model_why == _compact_text(model_why.v) IN
         IF clean_model_why = "" \/ _is_low_signal_why(clean_model_why) THEN default_why
         ELSE IF contains(lower(default_why), lower(clean_model_why)) THEN default_why
         ELSE default_why \o " " \o clean_model_why

\* lines 132-135; raw_id is a tagged value
_normalize_misconception_id(raw_id, domain) ==
    IF raw_id.t = "str" /\ \E i \in 1..Len(MISCONCEPTION_IDS) : MISCONCEPTION_IDS[i] = raw_id.v
    THEN raw_id.v
    ELSE _default_misconception_for_domain(domain)

\* schemas.py:76-93: DiagnosisResult; misconception_id "None" is None
NewDiagnosisResult(id, correct, misconception_id, why, confidence) ==
    [id |-> id, correct |-> correct, misconception_id |-> misconception_id, why |-> why,
     confidence |-> confidence]

\* lines 141-146: the results that count, their number and first index per id
Counted(results) ==
    { i \in 1..Len(results) : ~results[i].correct /\ results[i].misconception_id # "None" }

RankCount(results, mid) ==
    Cardinality({ i \in Counted(results) : results[i].misconception_id = mid })

RankFirstSeen(results, mid) ==
    CHOOSE i \in Counted(results) :
        /\ results[i].misconception_id = mid
        /\ \A j \in Counted(results) : results[j].misconception_id = mid => i <= j

RECURSIVE RankSorted(_, _)
\* lines 147-150: sorted(counts, key=(-counts[mid], first_seen[mid]))
RankSorted(results, mids) ==
    IF mids = {} THEN <<>>
    ELSE LET least == CHOOSE m \in mids :
                 \A o \in mids \ {m} :
                     \/ RankCount(results, m) > RankCount(results, o)
                     \/ /\ RankCount(results, m) = RankCount(results, o)
                        /\ RankFirstSeen(results, m) < RankFirstSeen(results, o)
         IN  <<least>> \o RankSorted(results, mids \ {least})

\* lines 138-150
_rank_top_misconceptions(results) ==
    RankSorted(results, { results[i].misconception_id : i \in Counted(results) })

\* an item of the model's "results": is_dict, and what its keys hold
ResultItem(id, correct, misconception_id, why, confidence) ==
    [is_dict |-> TRUE, id |-> id, correct |-> correct, misconception_id |-> misconception_id,
     why |-> why, confidence |-> confidence]

\* by_question_id.get(question.id, {})
EmptyItem == ResultItem(Absent, Absent, Absent, Absent, Confidence("absent", 0))

NotADict == [EmptyItem EXCEPT !.is_dict = FALSE]

PyBool(b) == [t |-> "bool", v |-> IF b THEN "True" ELSE "False"]

\* lines 158-166: the item kept for a q id: the last dict item of
\* the list whose "id" is that str
ByQuestionId(data, id) ==
    LET raw_results == IF data.kind = "object" THEN data.results ELSE <<>>
        found == { i \in 1..Len(raw_results) :
                     raw_results[i].is_dict /\ raw_results[i].id = PyStr(id) }
    IN  IF found = {} THEN EmptyItem
        ELSE raw_results[CHOOSE i \in found : \A j \in found : j <= i]

\* lines 169-204: the result for one question: [raised, nan, value]; raised
\* when _default_why raises
NormalizedResult(q, answers, data) ==
    LET item == ByQuestionId(data, q.id)
        student_answer == AnswerOf(answers, q.id)
        correct == ~student_answer.is_none /\ student_answer.v = q.answer_key
        default_confidence == IF correct THEN 90 ELSE 75
        model_correct == item.correct
        trust_model_reasoning ==
            model_correct.t # "bool" \/ model_correct = PyBool(correct)
        default_why == _default_why(q, student_answer, correct)
        confidence == _coerce_confidence(IF trust_model_reasoning
                                         THEN item.confidence
                                         ELSE Confidence("num", default_confidence),
                                         default_confidence)
    IN  [raised |-> default_why.raised,
         nan |-> confidence.nan,
         value |-> NewDiagnosisResult(
                       q.id, correct,
                       IF correct THEN "None"
                       ELSE _normalize_misconception_id(item.misconception_id,
                                                        q.domain),
                       IF default_why.raised THEN ""
                       ELSE _merge_why(default_why.value, item.why,
                                       trust_model_reasoning),
                       confidence)]

\* lines 212-233: the offline result for one question
OfflineResult(q, answers) ==
    LET student_ans == AnswerOf(answers, q.id)
        correct == ~student_ans.is_none /\ student_ans.v = q.answer_key
        why == _default_why(q, student_ans, correct)
    IN  [raised |-> why.raised,
         nan |-> FALSE,
         value |-> NewDiagnosisResult(
                       q.id, correct,
                       IF correct THEN "None"
                       ELSE _default_misconception_for_domain(q.domain),
                       why.value,
                       [nan |-> FALSE, v |-> IF correct THEN 90 ELSE 75])]

\* eval/test_misconception_accuracy.py:16-38: _build_exam()
QuestionIds == <<"1", "2", "3", "4", "5", "6", "7", "8">>

ExamDomains ==
    <<"Cloud Concepts", "Azure Architecture", "Security", "Cost Management", "Governance",
      "Identity", "Azure Services", "Cloud Concepts">>

_build_exam ==
    [i \in 1..8 |->
        Question(QuestionIds[i], ExamDomains[i], "Question " \o QuestionIds[i],
                 <<"A", "B", "C", "D">>, 1, "Rationale " \o QuestionIds[i])]

\* that exam, and one with a domain outside the mapping, prefixed choices
\* and a blank rationale
Exams ==
    { _build_exam,
      [_build_exam EXCEPT
          ![4] = Question("4", "Networking", "Question 4", <<"A) IaaS", "B) ">>, 0, " \n ")] }

\* answer sheets: every q answered 1 but those of wrong, which are
\* answered w, and those of missing, which are not answered
AnswerSheets ==
    { [id \in { QuestionIds[i] : i \in 1..8 } \ missing |-> IF id \in wrong THEN w ELSE 1] :
        missing \in SUBSET {"5"}, wrong \in SUBSET {"1", "2", "3", "6"}, w \in {0, 3, -1, -66} }

\* the data of a model output: kind "object" with "results" a list, or
\* another JSON value
DiagnosisData(kind, results) == [kind |-> kind, results |-> results]

GenuineWhy ==
    "Regions are paired for disaster recovery, not chosen for price."

\* what the model caller may do: raise, or return one of these texts
DiagnosisOutputs ==
    << [raises |-> TRUE, is_str |-> TRUE, prose |-> FALSE, json |-> "none",
        data |-> DiagnosisData("none", <<>>)],
       RawText(TRUE, "none", DiagnosisData("none", <<>>)),
       RawText(FALSE, "array", DiagnosisData("array", <<>>)),
       RawText(TRUE, "object", DiagnosisData("object", <<>>)),
       RawText(FALSE, "object",
           DiagnosisData("object",
               << ResultItem(PyStr("1"), PyBool(FALSE), PyStr("SRM"),
                             PyStr("Model claimed incorrect."), Confidence("num", 20)),
                  ResultItem(PyStr("2"), PyBool(TRUE), Absent,
                             PyStr("Model claimed correct."), Confidence("num", 95)) >>)),
       RawText(FALSE, "object",
           DiagnosisData("object",
               << ResultItem(PyStr("3"), PyBool(FALSE), PyStr("NOT_REAL"), PyStr(""),
                             Confidence("num", 170)) >>)),
       RawText(FALSE, "object",
           DiagnosisData("object",
               << NotADict,
                  ResultItem([t |-> "int", v |-> "1"], PyBool(FALSE), PyStr("GOV"), Absent,
                             Confidence("other", 0)),
                  ResultItem(PyStr("2"), PyBool(FALSE), PyStr("IDAM"), PyStr(GenuineWhy),
                             Confidence("num", -50)),
                  ResultItem(PyStr("2"), Absent, PyStr("SEC"), PyStr(GenuineWhy),
                             Confidence("nan", 0)),
                  ResultItem(PyStr("6"), PyBool(FALSE), PyStr("SEC"),
                             PyStr("This indicates confusion about identity."),
                             Confidence("num", 60)),
                  ResultItem(PyStr("5"), PyBool(TRUE), Absent,
                             PyStr("Model marked this as correct."), Confidence("num", 99))
               >>)) >>

\* the values a call computes for one question, for every question, answer
\* sheet and model output
AllQuestions == UNION { { exam[i] : i \in 1..Len(exam) } : exam \in Exams }

AnswersTo(q) == { [id \in {q.id} \cap DOMAIN a |-> a[id]] : a \in AnswerSheets }

NormalizedResults ==
    [q \in AllQuestions |->
        [a \in AnswersTo(q) |->
            [k \in 1..Len(DiagnosisOutputs) |->
                NormalizedResult(q, a, DiagnosisOutputs[k].data)]]]

OfflineResults ==
    [q \in AllQuestions |-> [a \in AnswersTo(q) |-> OfflineResult(q, a)]]

\* the part of an answer sheet that answers question q
Restricted(answers, q) == [id \in {q.id} \cap DOMAIN answers |-> answers[id]]

\* lines 206-209, 233 and schemas.py:76-105: the Diagnosis is returned, or
\* the call raises: in _default_why, or where the confidence is NaN and
\* the DiagnosisResult validator does not accept it (nan_accepted FALSE)
Diagnosed(outcomes, nan_accepted) ==
    LET results == [i \in 1..Len(outcomes) |-> outcomes[i].value] IN
    IF \E i \in 1..Len(outcomes) : outcomes[i].raised \/ (outcomes[i].nan /\ ~nan_accepted)
    THEN [diagnosis EXCEPT !.pc = "raised"]
    ELSE [diagnosis EXCEPT !.pc = "returned", !.results = results,
                           !.top_misconceptions = _rank_top_misconceptions(results)]

\* lines 242-243: offline, or no model caller
RunMisconceptionOffline(off, fr) ==
    /\ diagnosis.pc = "idle"
    /\ off \/ fr = "None"
    /\ diagnosis' =
           [Diagnosed([i \in 1..Len(diagnosis.exam) |->
                          OfflineResults[diagnosis.exam[i]]
                                        [Restricted(diagnosis.answers, diagnosis.exam[i])]],
                      TRUE)
               EXCEPT !.offline = TRUE]
    /\ UNCHANGED << puts, tool_request >>
    /\ UNCHANGED << groundingVars, apiVars >>

\* lines 245-251: the model caller gives its k-th output
RunMisconceptionOnline(k, nan_accepted) ==
    /\ diagnosis.pc = "idle"
    /\ LET out  == DiagnosisOutputs[k]
           data == extract_json(out)
       IN  diagnosis' =
               [(IF out.raises \/ data.raised
                 THEN [diagnosis EXCEPT !.pc = "raised"]
                 ELSE Diagnosed([i \in 1..Len(diagnosis.exam) |->
                                    NormalizedResults[diagnosis.exam[i]]
                                        [Restricted(diagnosis.answers, diagnosis.exam[i])][k]],
                                nan_accepted))
                   EXCEPT !.model_output = k]
    /\ UNCHANGED << puts, tool_request >>
    /\ UNCHANGED << groundingVars, apiVars >>

InitDiagnosis ==
    /\ GroundingInit
    /\ actor = ThrottledMCPRunner
    /\ ApiInit(60, 60)
    /\ puts = [t \in Threads |-> NoPut]
    /\ tool_request = NoToolRequest
    /\ \E exam \in Exams, answers \in AnswerSheets :
           diagnosis = [NoDiagnosisCall EXCEPT !.exam = exam, !.answers = answers]

NextDiagnosis ==
    \/ \E off \in BOOLEAN, fr \in {"None", "actor"} : RunMisconceptionOffline(off, fr)
    \/ \E k \in 1..Len(DiagnosisOutputs), nan_accepted \in BOOLEAN :
           RunMisconceptionOnline(k, nan_accepted)

SpecDiagnosis == InitDiagnosis /\ [][NextDiagnosis]_vars

(***************************************************************************)
(* src/src/orchestration/cache.py under concurrent callers: cache_put      *)
(* loads the whole store, sets one key and saves the whole store, and      *)
(* nothing serializes two callers                                          *)
(***************************************************************************)

PutUrls == {UrlA, UrlB}

PutContents == {"short", "Azure App Service hosts web apps."}

\* line 92: data = _load(): thread t reads the whole store
PutLoads(t, url, content) ==
    /\ puts[t].pc = "idle"
    /\ puts' = [puts EXCEPT ![t] = [pc |-> "loaded", url |-> url, content |-> content,
                                    data |-> cache]]
    /\ UNCHANGED << diagnosis, tool_request >>
    /\ UNCHANGED << groundingVars, apiVars >>

\* lines 93-94: data[url] = content; _save(data): thread t writes back the
\* store it read, with its key set
PutSaves(t) ==
    /\ puts[t].pc = "loaded"
    /\ cache' = cache_put(puts[t].data, puts[t].url, puts[t].content)
    /\ puts' = [puts EXCEPT ![t].pc = "done"]
    /\ UNCHANGED << actor, call_no, pc, question, diagnosis_result, offline, foundry_run,
                    queries, discovered_tools, docs_hits, code_sample_hits, hits, evidence,
                    idx, attempt, model_output, model_result, result, mode, calls_made,
                    throttle_seen, throttled_prior, policy_call >>
    /\ UNCHANGED << diagnosis, tool_request >>
    /\ UNCHANGED apiVars

\* two threads, an empty store
InitCache ==
    /\ GroundingInit
    /\ actor = ThrottledMCPRunner
    /\ ApiInit(60, 60)
    /\ OtherInit

NextCache ==
    \/ \E t \in Threads, url \in PutUrls, content \in PutContents : PutLoads(t, url, content)
    \/ \E t \in Threads : PutSaves(t)

SpecCache == InitCache /\ [][NextCache]_vars

(***************************************************************************)
(* src/src/agents/grounding_verifier.py: _run_search_tool and              *)
(* _run_fetch_tool called directly, one action per call of _run_mcp_tool   *)
(***************************************************************************)

\* lines 242-243, 264-265: the arguments are bound; with a tool discovery
\* does not list the call returns None at once
ToolRequest(tool_name, shapes, discovered) ==
    [pc |-> IF _tool_available(tool_name, discovered) THEN "trying" ELSE "returned",
     tool_name |-> tool_name, shapes |-> shapes, discovered_tools |-> discovered,
     attempt |-> 1, received |-> <<>>, raised |-> {}, returned |-> NoPayload]

\* what discovery may have given the caller of the gateway
Discoveries == {DiscoveryUnavailable} \cup { _discover_tool_names(a) : a \in Actors }

\* lines 235-243: _run_search_tool(foundry_run, tool_name, query, top_k, discovered_tools)
_run_search_tool(tool_name, discovered) ==
    /\ tool_request.pc # "trying"
    /\ tool_request' = ToolRequest(tool_name, SearchShapes, discovered)
    /\ UNCHANGED << groundingVars, apiVars, diagnosis, puts >>

\* lines 258-265: _run_fetch_tool(foundry_run, url, discovered_tools)
_run_fetch_tool(discovered) ==
    /\ tool_request.pc # "trying"
    /\ tool_request' = ToolRequest("microsoft_docs_fetch", FetchShapes, discovered)
    /\ UNCHANGED << groundingVars, apiVars, diagnosis, puts >>

\* a variant of TryShape that returns None when the first shape raises
TryFirstShapeOnly(k) ==
    /\ tool_request.pc = "trying"
    /\ LET t == tool_request
           results == IF t.shapes = FetchShapes THEN FetchResults ELSE DocsResults
           r == _run_mcp_tool(actor, t.tool_name, InvokerOutcome(actor, t.attempt, k), results)
           received == IF r.reached
                       THEN Append(t.received, [tool_name |-> t.tool_name, shape |-> t.attempt])
                       ELSE t.received
       IN
       /\ k \in 1..Len(results)
       /\ tool_request' =
              IF ~r.raised
              THEN [t EXCEPT !.pc = "returned", !.received = received,
                             !.returned = [is_none |-> FALSE, value |-> r.value]]
              ELSE [t EXCEPT !.pc = "returned", !.received = received,
                             !.raised = @ \cup {t.attempt}]
    /\ UNCHANGED << groundingVars, apiVars, diagnosis, puts >>

\* lines 245-255, 267-276: one iteration of `for args in attempts`: the call
\* of _run_mcp_tool with the next argument shape; what it returns is
\* returned, what it raises is caught and the next shape follows, None
\* being returned after the last
TryShape(k) ==
    /\ tool_request.pc = "trying"
    /\ LET t == tool_request
           results == IF t.shapes = FetchShapes THEN FetchResults ELSE DocsResults
           r == _run_mcp_tool(actor, t.tool_name, InvokerOutcome(actor, t.attempt, k), results)
           received == IF r.reached
                       THEN Append(t.received, [tool_name |-> t.tool_name, shape |-> t.attempt])
                       ELSE t.received
       IN
       /\ k \in 1..Len(results)
       /\ tool_request' =
              IF ~r.raised
              THEN [t EXCEPT !.pc = "returned", !.received = received,
                             !.returned = [is_none |-> FALSE, value |-> r.value]]
              ELSE IF t.attempt < t.shapes
              THEN [t EXCEPT !.attempt = @ + 1, !.received = received,
                             !.raised = @ \cup {t.attempt}]
              ELSE [t EXCEPT !.pc = "returned", !.received = received,
                             !.raised = @ \cup {t.attempt}]
    /\ UNCHANGED << groundingVars, apiVars, diagnosis, puts >>

NextGateway ==
    \/ \E tool_name \in GatewayNames, discovered \in Discoveries :
           _run_search_tool(tool_name, discovered)
    \/ \E discovered \in Discoveries : _run_fetch_tool(discovered)
    \/ \E k \in 1..Len(DocsResults) : TryShape(k)

SpecGateway == Init /\ [][NextGateway]_vars

(***************************************************************************)
(* Properties                                                              *)
(***************************************************************************)

\* tool-invocation attempts the actor received in the current call
ToolCalls == calls_made.docs + calls_made.code + calls_made.fetch

\* the URL is https with host learn.microsoft.com or a subdomain of it
HttpsLearnUrl(url) ==
    LET parsed == urlparse(url)
        host   == lower(parsed.netloc)
    IN  /\ parsed.scheme = "https"
        /\ \/ host = "learn.microsoft.com"
           \/ endswith(host, ".learn.microsoft.com")

WordCount(text) == Len(split(text))

ValidCitation(c) ==
    HttpsLearnUrl(c.url) /\ WordCount(c.snippet) >= 1 /\ WordCount(c.snippet) <= MaxSnippetWords

\* a GroundedExplanation that satisfies the output contract
ValidOutput(r) ==
    /\ Len(r.citations) > 0
    /\ \A i \in 1..Len(r.citations) : ValidCitation(r.citations[i])

\* C1: for every question, diagnosis, offline flag and behaviour of the
\* external actor, run_grounding_verifier returns a GroundedExplanation: no
\* call ends with an exception escaping it.
VerifierNeverRaises == pc # "raised"

\* C2: every GroundedExplanation returned, on the offline path, the online
\* success path and the fallback paths, has a non-empty citation list whose
\* URLs are https on learn.microsoft.com or a subdomain and whose snippets
\* have between 1 and 20 words.
ReturnedCitationsValid == pc = "done" => ValidOutput(result)

\* an online call fell back on gathered evidence, which it cites
FallbackCitesEvidence ==
    /\ pc = "done"
    /\ mode = "fallback_exception"
    /\ Len(evidence) > 0
    /\ result.citations[1] = evidence[1]

\* C3: with an actor whose tool invoker always raises a rate-limit error, an
\* online grounding call makes exactly 1 tool-invocation attempt and exactly
\* 1 discovery attempt, and returns a valid GroundedExplanation.
ThrottleFailsFast ==
    (actor.run_mcp_tool = "throttles" /\ pc = "done" /\ mode # "offline_stub")
        => (ToolCalls = 1 /\ calls_made.list = 1 /\ ValidOutput(result))

\* C4: once a grounding call has observed a rate-limit error from the actor,
\* a later call on that actor makes 0 discovery attempts and 0
\* tool-invocation attempts, and what it returns is a valid
\* GroundedExplanation.
ThrottleCooldown ==
    throttled_prior
        => (calls_made.list = 0 /\ ToolCalls = 0 /\ (pc = "done" => ValidOutput(result)))

\* the policy was called and returned a denial
Denied == ~policy_call.out.raised /\ policy_call.out.value = FALSE

\* C5: is_tool_allowed returns False and approval_handler returns a denial
\* for every input that is no string; neither raises.
NonStringDenied ==
    (policy_call.op # "none" /\ policy_call.input.t # "str") => Denied

ControlChars == {"\n", "\t", "\r", "\f"}

ShellMetachars == {";", "|", "&", "$", "(", ")", "<", ">"}

ToolNameOf ==
    [docs |-> "microsoft_docs_search", code |-> "microsoft_code_sample_search",
     fetch |-> "microsoft_docs_fetch"]

\* C7: within a call a tool is invoked only if discovery is unavailable or
\* the discovered names contain it (so an actor listing only the code-sample
\* tool sees no documentation search and no fetch), and with discovery
\* unavailable the searches are attempted all the same.
DiscoveryGatesTools ==
    /\ \A t \in DOMAIN ToolNameOf :
           calls_made[t] > 0
               => (~discovered_tools.available \/ ToolNameOf[t] \in discovered_tools.names)
    /\ (/\ _supports_tool_runner(actor)
        /\ mode \notin {"idle", "offline_stub"}
        /\ ~discovered_tools.available
        /\ pc \in {"fetch", "synth", "done", "raised"})
           => (calls_made.docs > 0 /\ calls_made.code > 0)

\* a call on the actor that lists only the code-sample tool has ended with
\* evidence from that tool alone
CodeSampleOnlyGrounded ==
    /\ actor = CodeSampleOnlyRunner
    /\ pc = "done"
    /\ calls_made.code > 0
    /\ calls_made.docs = 0
    /\ calls_made.fetch = 0
    /\ Len(evidence) > 0

\* C8: when synthesis returns a low-signal result whose only citation is the
\* placeholder while the call gathered a non-placeholder evidence citation,
\* the returned citations are taken from the gathered evidence and the
\* returned explanation is not the insufficiency text.
PlaceholderYieldsToEvidence ==
    (/\ pc = "done"
     /\ mode = "fallback_low_signal"
     /\ Len(model_result.citations) = 1
     /\ _is_placeholder_citation(model_result.citations[1])
     /\ \E j \in 1..Len(evidence) : ~_is_placeholder_citation(evidence[j]))
        => /\ \A i \in 1..Len(result.citations) :
                  \E j \in 1..Len(evidence) : result.citations[i] = evidence[j]
           /\ result.explanation # InsufficientEvidence

\* the parsed value violates the GroundedExplanation schema
SchemaViolation(data) ==
    \/ data.kind # "object"
    \/ ~({"question_id", "explanation", "citations"} \subseteq data.fields)
    \/ Len(data.citations) = 0
    \/ \E i \in 1..Len(data.citations) : ~ValidCitation(data.citations[i])

\* the model caller raised, gave no parseable JSON object, or gave one that
\* violates the schema
SynthesisFails(out) ==
    \/ out.raises
    \/ ~out.is_str
    \/ out.json # "object"
    \/ SchemaViolation(out.data)

\* C9: when the model caller raises, or its output holds no parseable JSON
\* object, or the object violates the GroundedExplanation schema, the call
\* does not fail: it returns the fallback output built from the question,
\* the diagnosis and the evidence gathered in the call.
SynthesisFailureFallsBack ==
    (pc = "done" /\ model_output # 0 /\ SynthesisFails(ModelOutputs[model_output]))
        => /\ mode = "fallback_exception"
           /\ result = _fallback_ground(question, evidence, diagnosis_result)

\* the model caller raised in a call that had gathered evidence
ModelRaisedWithEvidence ==
    /\ pc = "done"
    /\ model_output # 0
    /\ ModelOutputs[model_output].raises
    /\ Len(evidence) > 0
    /\ mode = "fallback_exception"

\* the explanation, whitespace-normalized, is shorter than the minimum or
\* begins with the insufficiency marker
LowSignalText(text) ==
    LET clean == strip(join(split(text))) IN
    Len(clean) < MinExplanationLen \/ startswith(lower(clean), "insufficient evidence")

\* C10: a synthesis result whose whitespace-normalized explanation is shorter
\* than 30 characters or begins (in any letter case) with "insufficient
\* evidence" is never the call's output: the call falls back, so every
\* output of the online success path has an explanation of 30 characters or
\* more that does not begin with the marker.
LowSignalNeverReturned ==
    pc = "done"
        => /\ mode = "online" => ~LowSignalText(result.explanation)
           /\ (model_result # NoResult /\ LowSignalText(model_result.explanation))
                  => /\ mode = "fallback_low_signal"
                     /\ result.explanation \in
                            { _deterministic_explanation(question, diagnosis_result),
                              InsufficientEvidence }

\* a valid synthesis result with a short explanation was replaced
ShortExplanationReplaced ==
    /\ pc = "done"
    /\ mode = "fallback_low_signal"
    /\ model_result # NoResult
    /\ Len(strip(join(split(model_result.explanation)))) < MinExplanationLen
    /\ result # model_result

\* the citation list is the generic placeholder citation alone
PlaceholderOnly(citations) ==
    Len(citations) = 1 /\ rstrip(citations[1].url, {"/"}) = "https://learn.microsoft.com"

\* C11: every output of the fallback policy, the offline stub's included,
\* whose only citation is the generic placeholder citation has the literal
\* insufficiency marker as its explanation.
PlaceholderOnlyIsInsufficient ==
    (/\ pc = "done"
     /\ mode \in {"offline_stub", "fallback_exception", "fallback_low_signal"}
     /\ PlaceholderOnly(result.citations))
        => result.explanation = InsufficientEvidence

\* the citation is the generic placeholder: the documentation root URL, or
\* the placeholder's snippet text
PlaceholderCitation(c) ==
    \/ c.url \in {"https://learn.microsoft.com", "https://learn.microsoft.com/"}
    \/ rstrip(c.url, {"/"}) = "https://learn.microsoft.com"
    \/ contains(lower(c.snippet), "no matching microsoft learn evidence retrieved yet")

\* the positions of the non-placeholder citations of an evidence list
RealPositions(ev) == { i \in 1..Len(ev) : ~PlaceholderCitation(ev[i]) }

\* the evidence list the fallback policy was handed in the call that ended
HandedEvidence ==
    CASE mode = "fallback_exception" -> evidence
      [] mode = "fallback_low_signal" ->
            IF model_result.citations # <<>> THEN model_result.citations ELSE evidence
      [] OTHER -> <<>>

\* the citations the priority order selects for a question and an evidence list
PriorityCitations(q, ev) ==
    LET real   == RealPositions(ev)
        first  == CHOOSE i \in real : \A j \in real : i <= j
        rest   == real \ {first}
        second == CHOOSE i \in rest : \A j \in rest : i <= j
    IN  IF real # {}
        THEN IF rest = {} THEN <<ev[first]>> ELSE <<ev[first], ev[second]>>
        ELSE IF q.domain \in FallbackDomains
        THEN <<_DOMAIN_FALLBACK_CITATIONS(q.domain)>>
        ELSE <<Citation("Microsoft Learn", "https://learn.microsoft.com/",
                        "No matching Microsoft Learn evidence retrieved yet.")>>

\* C12: the citations of a fallback output follow a strict priority order:
\* the first up-to-2 non-placeholder citations of the evidence list, in
\* evidence order, when there is one; otherwise the single citation of the
\* per-domain table when the question's domain is one of its keys; otherwise
\* the single generic placeholder citation.
FallbackCitationPriority ==
    (pc = "done" /\ mode \in {"offline_stub", "fallback_exception", "fallback_low_signal"})
        => result.citations = PriorityCitations(question, HandedEvidence)

\* a fallback over three gathered citations returned the first two
FallbackKeptFirstTwo ==
    /\ pc = "done"
    /\ mode = "fallback_exception"
    /\ Cardinality(RealPositions(evidence)) >= 3
    /\ result.citations = <<evidence[1], evidence[2]>>

\* what the offline stub returns for the questions and diagnoses of the calls,
\* written out: a value of the arguments and of nothing else
OfflineReference(id, misconception_id) ==
    [ explanation |->
          (CASE id = "1" -> "Correct answer: B) Microsoft Entra ID. Identity is handled by Entra ID."
             [] id = "10" -> "Correct answer: A) Azure DNS. Azure DNS hosts domains.")
          \o (IF misconception_id = "" THEN "" ELSE " Focus area: " \o misconception_id \o "."),
      citations |->
          CASE id = "1" ->
                 << [title |-> "What is Microsoft Entra ID?",
                     url |-> "https://learn.microsoft.com/en-us/entra/fundamentals/whatis",
                     snippet |-> "Cloud-based identity and access management service."] >>
            [] id = "10" ->
                 << [title |-> "Microsoft Learn",
                     url |-> "https://learn.microsoft.com/",
                     snippet |-> "No matching Microsoft Learn evidence retrieved yet."] >> ]

\* C13: offline determinism: whatever the Evidence Cache holds, whatever
\* actor is supplied and whatever calls came before, a call in the offline
\* stub state returns the explanation and the citation list fixed by its
\* Question and DiagnosisResult alone, so two such calls with identical
\* arguments return identical explanations and citation lists.
OfflineDeterminism ==
    (pc = "done" /\ mode = "offline_stub")
        => LET ref == OfflineReference(question.id,
                          IF diagnosis_result.present THEN diagnosis_result.misconception_id
                          ELSE "")
           IN  /\ result.explanation = ref.explanation
               /\ result.citations = ref.citations

\* an offline call returned after an earlier call had filled the cache
OfflineAfterOnline ==
    /\ pc = "done"
    /\ mode = "offline_stub"
    /\ call_no = 2
    /\ DOMAIN cache # {}
    /\ diagnosis_result.present

\* C14: a call in the offline stub state (offline flag set, or no external
\* actor) makes no tool-discovery call, no tool invocation, no model call
\* and no Evidence Cache read or write, also when an actor with tool
\* capability is supplied together with offline = TRUE: the call returns
\* with every call counter at zero and the cache as it was.
OfflineTouchesNothing ==
    [][ (call_no' = call_no + 1 /\ (offline' \/ foundry_run' = "None"))
            => /\ pc' = "done"
               /\ mode' = "offline_stub"
               /\ cache' = cache
               /\ calls_made'.list = 0
               /\ calls_made'.docs + calls_made'.code + calls_made'.fetch = 0
               /\ calls_made'.model = 0
               /\ calls_made'.cache = 0 ]_vars

\* an offline call returned although a tool-capable actor that lists its
\* tools was supplied and the cache held content
OfflineWithCapableActor ==
    /\ pc = "done"
    /\ mode = "offline_stub"
    /\ offline
    /\ foundry_run = "actor"
    /\ actor.run_mcp_tool = "accepts"
    /\ actor.list_mcp_tools.kind = "list"
    /\ DOMAIN cache # {}

OnlineCallsModelOnce ==
    (call_no > 0 /\ mode # "offline_stub")
        => /\ pc \in {"done", "raised"} => calls_made.model = 1
           /\ pc \in {"docs", "code", "fetch", "synth"} => calls_made.model = 0

\* C18: every GroundedExplanation the call returns, on every path, carries
\* the id of the input Question as its question_id, whatever question_id the
\* model's synthesis output carries.
ReturnedQuestionIdIsInput ==
    pc = "done" => result.question_id = question.id

\* the text with every run of whitespace reduced to one space and none at
\* either end
NormalizedText(text) == strip(join(split(text)))

\* the letter of a 0-based choice index
ChoiceLetter(index) == SubSeq("ABCDEF", index + 1, index + 1)

\* the normalized choice without a leading "A)" .. "F)" and the whitespace
\* after it
ChoiceWithoutPrefix(choice) ==
    LET clean == NormalizedText(choice) IN
    IF \E l \in {"A", "B", "C", "D", "E", "F"} : startswith(clean, l \o ")")
    THEN NormalizedText(SubSeq(clean, 3, Len(clean)))
    ELSE clean

\* the text with a period appended unless it ends in ".", "!" or "?"
Terminated(text) ==
    IF endswith(text, ".") \/ endswith(text, "!") \/ endswith(text, "?")
    THEN text ELSE text \o "."

\* the "Focus area" clause of a diagnosis: present with a misconception id
FocusClause(diag) ==
    IF diag.present /\ diag.misconception_id # ""
    THEN " Focus area: " \o diag.misconception_id \o "."
    ELSE ""

OrElse(text, default) == IF text = "" THEN default ELSE text

\* the explanation as the sentence format alone gives it
FormattedExplanation(q, diag) ==
    "Correct answer: " \o ChoiceLetter(q.answer_key) \o ") "
        \o ChoiceWithoutPrefix(q.choices[q.answer_key + 1]) \o ". "
        \o Terminated(NormalizedText(q.rationale_draft)) \o FocusClause(diag)

\* the explanation with the two defaults: "Unknown" for a choice of which
\* nothing remains, and the review sentence for an empty rationale
FormattedExplanationWithDefaults(q, diag) ==
    "Correct answer: " \o ChoiceLetter(q.answer_key) \o ") "
        \o OrElse(ChoiceWithoutPrefix(q.choices[q.answer_key + 1]), "Unknown") \o ". "
        \o Terminated(OrElse(NormalizedText(q.rationale_draft),
               "Review this AZ-900 concept and why this option best fits the service model."))
        \o FocusClause(diag)

\* the fallback policy returned an output that is not placeholder-only
FallbackReturned ==
    /\ pc = "done"
    /\ mode \in {"_fallback_ground", "_offline_ground"}
    /\ ~PlaceholderOnly(result.citations)

AdmittedInWindow(key, from) ==
    Cardinality({ i \in 1..Len(admitted[key]) :
                    admitted[key][i] >= from /\ admitted[key][i] < from + limiter.window_seconds })

\* C19: for every key and every sequence of check(key) calls, concurrent
\* interleavings included, the admitted calls whose timestamps fall inside
\* any window of window_seconds are at most max_requests; a blocked call
\* returns a retry-after of at least 1 and consumes no quota; a call on one
\* key changes nothing for another key.
RateLimitContract ==
    [][ /\ \A key \in RateLimitKeys, from \in 0..MaxClock :
               AdmittedInWindow(key, from)' <= limiter.max_requests
        /\ \A t \in Threads :
               (checks[t].pc = "lock" /\ checks'[t].pc = "idle")
                   => /\ \A key \in RateLimitKeys \ {checks[t].key} :
                             buckets'[key] = buckets[key] /\ admitted'[key] = admitted[key]
                      /\ checked'.retry_after # 0
                             => /\ checked'.retry_after >= 1
                                /\ Len(buckets'[checks[t].key]) <= Len(buckets[checks[t].key])
                                /\ admitted' = admitted
      ]_vars

\* a claim's value when it is a str, trimmed; "" otherwise
TrimmedClaim(value) == IF value.t = "str" THEN strip(value.v) ELSE ""

\* the identity the claims give: the tid (or "auth"), then the oid or else
\* the sub; "" when the token has neither
ClaimsIdentity ==
    [c \in TokenClaims |->
        LET principal == IF TrimmedClaim(c.oid) # "" THEN TrimmedClaim(c.oid)
                         ELSE TrimmedClaim(c.sub)
            tenant    == IF TrimmedClaim(c.tid) # "" THEN TrimmedClaim(c.tid) ELSE "auth"
        IN  IF principal = "" THEN "" ELSE tenant \o ":" \o principal]

\* the key of the state the claims give access to
ClaimsStateKey == [c \in TokenClaims |-> _sanitize_user_id(ClaimsIdentity[c])]

\* a request with token claims was answered: the state it loaded and saved
\* is the one the claims name, whatever user_id the client sent
ServedUnderClaims ==
    response.status = 200
        => /\ ClaimsIdentity[response.claims] # ""
           /\ response.effective_user_id = ClaimsIdentity[response.claims]
           /\ response.loaded = {ClaimsStateKey[response.claims]}
           /\ response.saved \subseteq response.loaded
           /\ response.endpoint # "get_state"
                  => /\ response.saved = response.loaded
                     /\ state_store[ClaimsStateKey[response.claims]] = response.state

\* C20 as stated: with token claims present the user id under which the /v1
\* endpoints load and save student state is a function of the claims only
\* (tid plus oid or sub), so requests with the same claims and different
\* client user_id values read and write the same state; a token with no oid
\* or sub claim is rejected with 401 before any state is touched.
ClaimsAloneDecideState ==
    [][ (response'.status # 0 /\ ~response'.claims.is_none)
            => /\ ServedUnderClaims'
               /\ ClaimsIdentity[response'.claims] = ""
                      => /\ response'.status = 401
                         /\ response'.loaded = {} /\ response'.saved = {}
                         /\ state_store' = state_store ]_vars

\* C20 amended: the same, where a token with no oid or sub claim is rejected
\* before any state is touched with 401, or with 429 when the rate limit of
\* the client's address is used up: the rate limit is enforced first.
ClaimsDecideStateAfterRateLimit ==
    [][ (response'.status # 0 /\ ~response'.claims.is_none)
            => /\ ServedUnderClaims'
               /\ response'.status \in {200, 401, 429}
               /\ response'.status = 401 => ClaimsIdentity[response'.claims] = ""
               /\ ClaimsIdentity[response'.claims] = ""
                      => /\ response'.status \in {401, 429}
                         /\ response'.status = 429 => response'.retry_after >= 1
                         /\ response'.loaded = {} /\ response'.saved = {}
                         /\ state_store' = state_store ]_vars

\* a request for another user_id read the minutes a request of the spoofed
\* user_id had saved under the same claims
SameClaimsSameState ==
    /\ response.endpoint = "get_state"
    /\ response.user_id = "any-other-user"
    /\ response.claims = Claims(Absent, PyStr("u1"), Absent)
    /\ response.status = 200
    /\ response.effective_user_id = "auth:u1"
    /\ response.state.preferred_minutes = 15

\* the fixed misconception taxonomy
Taxonomy == {"SRM", "IDAM", "REGION", "PRICING", "GOV", "SEC", "SERVICE_SCOPE", "TERMS"}

\* the default misconception of a question domain
DomainDefault(domain) ==
    CASE domain \in {"Security", "Identity"} -> "IDAM"
      [] domain = "Cloud Concepts" -> "SRM"
      [] domain = "Azure Architecture" -> "REGION"
      [] domain = "Cost Management" -> "PRICING"
      [] domain = "Governance" -> "GOV"
      [] domain = "Azure Services" -> "SERVICE_SCOPE"
      [] OTHER -> "TERMS"

\* the taxonomy ids the model's output gives for a question id
ModelIds(id) ==
    LET data == DiagnosisOutputs[diagnosis.model_output].data IN
    IF diagnosis.offline \/ data.kind # "object" THEN {}
    ELSE { data.results[i].misconception_id.v :
             i \in { j \in 1..Len(data.results) :
                       /\ data.results[j].is_dict
                       /\ data.results[j].id = PyStr(id)
                       /\ data.results[j].misconception_id.t = "str"
                       /\ data.results[j].misconception_id.v \in Taxonomy } }

\* the student's recorded answer to the i-th question equals its answer_key
AnsweredCorrectly(i) ==
    LET q == diagnosis.exam[i] IN
    q.id \in DOMAIN diagnosis.answers /\ diagnosis.answers[q.id] = q.answer_key

\* how often the returned results give a misconception, and where first
TimesDiagnosed(mid) ==
    Cardinality({ i \in 1..Len(diagnosis.results) : diagnosis.results[i].misconception_id = mid })

FirstDiagnosed(mid) ==
    CHOOSE i \in 1..Len(diagnosis.results) :
        /\ diagnosis.results[i].misconception_id = mid
        /\ \A j \in 1..(i - 1) : diagnosis.results[j].misconception_id # mid

\* the returned Diagnosis is the one the exam and the answer sheet determine
DeterministicDiagnosis ==
    LET results == diagnosis.results
        top == diagnosis.top_misconceptions
    IN
    /\ Len(results) = Len(diagnosis.exam)
    /\ \A i \in 1..Len(results) :
           /\ results[i].id = diagnosis.exam[i].id
           /\ results[i].correct = AnsweredCorrectly(i)
           /\ (results[i].misconception_id = "None") = AnsweredCorrectly(i)
           /\ ~AnsweredCorrectly(i) =>
                  /\ results[i].misconception_id \in Taxonomy
                  /\ IF ModelIds(results[i].id) = {}
                     THEN results[i].misconception_id = DomainDefault(diagnosis.exam[i].domain)
                     ELSE results[i].misconception_id \in ModelIds(results[i].id)
    /\ { top[n] : n \in 1..Len(top) }
           = { results[i].misconception_id : i \in 1..Len(results) } \ {"None"}
    /\ \A m, n \in 1..Len(top) :
           m < n => \/ TimesDiagnosed(top[m]) > TimesDiagnosed(top[n])
                    \/ /\ TimesDiagnosed(top[m]) = TimesDiagnosed(top[n])
                       /\ FirstDiagnosed(top[m]) < FirstDiagnosed(top[n])

\* C21: for every exam, answer sheet and model output, run_misconception
\* returns exactly one result per exam question in exam order, with correct
\* = (the recorded answer equals answer_key, a missing answer counting as
\* incorrect), misconception_id null exactly when correct and otherwise the
\* model's id if it is in the taxonomy, else the domain's default, and
\* top_misconceptions in descending count, then first occurrence.
RunMisconceptionAlwaysReturns ==
    diagnosis.pc # "idle" => diagnosis.pc = "returned" /\ DeterministicDiagnosis

\* the plain-text contents the fetch tool's responses hold
FetchedTexts ==
    { FetchedContents[AsDict(FetchResults[k])] : k \in 1..Len(FetchResults) } \ {""}

\* C22: the Evidence Cache only ever maps a URL to plain-text content that
\* was extracted from a fetch-tool response for that URL: no sequence of
\* grounding calls stores any other value, such as a citation snippet the
\* model produced, under a URL.
CacheHoldsOnlyFetchedContent ==
    \A url \in DOMAIN cache : cache[url] \in FetchedTexts

\* both threads' calls of cache_put have completed
BothPutsDone == \A t \in Threads : puts[t].pc = "done"

\* C23: after two concurrent cache_put calls for distinct URLs both
\* complete, cache_get returns the stored content for both URLs (no entry
\* is lost); after two concurrent cache_put calls on the same URL the final
\* value is one of the two written values.
ConcurrentPutsKeepBoth ==
    BothPutsDone =>
        IF puts["t1"].url # puts["t2"].url
        THEN \A t \in Threads : cache_get(cache, puts[t].url) = puts[t].content
        ELSE \E t \in Threads : cache_get(cache, puts[t].url) = puts[t].content

\* a step in which the fetch tool is invoked
FetchInvoked == calls_made'.fetch = calls_made.fetch + 1

\* C24: for each selected hit the fetch tool is invoked for its URL only on
\* a cache miss (no non-empty cached content for that URL); when a fetch
\* yields non-empty extracted content, that content is stored under the
\* URL, and what the cache holds for a URL stays, so that a later grounding
\* call selecting the same URL issues no fetch invocation for it.
FetchOnlyOnMiss ==
    [][ /\ FetchInvoked => pc = "fetch" /\ cache_get(cache, hits[idx].url) = ""
        /\ \A url \in DOMAIN cache : cache[url] # "" => cache_get(cache', url) = cache[url]
        /\ (FetchInvoked /\ Len(evidence') = Len(evidence) + 1) =>
               LET item == evidence'[Len(evidence')]
                   stored == cache_get(cache', hits[idx].url)
               IN  \/ /\ stored \in FetchedTexts
                      /\ item.snippet = _to_snippet(stored)
                   \/ /\ cache' = cache
                      /\ item.snippet \in {hits[idx].snippet, DefaultSnippet}
        /\ (FetchInvoked /\ pc' = "raised") =>
               cache' = cache \/ cache_get(cache', hits[idx].url) \in FetchedTexts
      ]_vars

\* a second grounding call took a document from the cache that the first
\* call had fetched, and invoked no fetch
SecondCallServedFromCache ==
    /\ call_no = 2
    /\ pc = "synth"
    /\ Len(evidence) >= 1
    /\ calls_made.fetch = 0
    /\ \A i \in 1..Len(evidence) : cache_get(cache, evidence[i].url) \in FetchedTexts

\* the step that ends the searches and selects the hits to fetch
HitsSelected == pc = "code" /\ pc' # "code"

\* the selected hits the documentation search did not find
FromCodeSamples ==
    { i \in 1..Len(hits') : \A j \in 1..Len(docs_hits) : docs_hits[j].url # hits'[i].url }

\* the merged hit list lists documentation hits first, has no duplicate
\* URL and at most 3 entries, and the evidence list has at most 3 items
MergedHitsCapped ==
    /\ HitsSelected =>
           /\ \A i \in 1..Len(hits') : i <= Len(docs_hits) => hits'[i] = docs_hits[i]
           /\ \A i, j \in 1..Len(hits') : hits'[i].url = hits'[j].url => i = j
           /\ Len(hits') <= 3
    /\ Len(evidence') <= 3

\* C25: the code-sample search contributes at most 2 hits to a grounding
\* call, and the merged hit list used for fetching lists documentation
\* hits before code-sample hits, has no duplicate URL and has at most 3
\* entries; hence the evidence list has at most 3 items.
CodeSamplesContributeAtMostTwo ==
    [][ /\ HitsSelected => Cardinality(FromCodeSamples) <= 2
        /\ MergedHitsCapped ]_vars

\* a step in which the actor's tool invoker receives a call of the tool
Invoked(tool) == calls_made'[tool] > calls_made[tool]

\* the documentation-search loop takes the queries in list order, one after
\* the other from the first, and leaves the loop exactly when 3 hits have
\* accumulated or the last query has been used
DocsSearchInOrder ==
    (pc = "docs" /\ _tool_available("microsoft_docs_search", discovered_tools)) =>
        /\ idx \in 1..Len(queries)
        /\ Len(docs_hits) < MaxDocsHits
        /\ \A i, j \in 1..Len(docs_hits) : docs_hits[i].url = docs_hits[j].url => i = j
        /\ \/ pc' = "docs" /\ idx' = idx /\ attempt' = attempt + 1 /\ docs_hits' = docs_hits
           \/ /\ pc' = "docs" /\ idx' = idx + 1 /\ attempt' = 1
              /\ Len(docs_hits') < MaxDocsHits /\ idx < Len(queries)
           \/ /\ pc' = "code"
              /\ Len(docs_hits') >= MaxDocsHits \/ idx = Len(queries)

\* the code-sample loop uses the first CodeQueries queries at most, in order
CodeSearchInOrder ==
    (pc = "code" /\ _tool_available("microsoft_code_sample_search", discovered_tools)) =>
        /\ idx \in 1..Min(Len(queries), CodeQueries)
        /\ \/ pc' = "code" /\ idx' \in {idx, idx + 1}
           \/ pc' \in {"fetch", "synth"}

\* C26: documentation search is issued against the queries strictly in list
\* order and stops at the first query after which at least 3 distinct-URL
\* hits have accumulated, or when the queries are exhausted; code-sample
\* search starts only after documentation search has finished and is issued
\* against at most the first 2 queries; every fetch happens after all
\* searches.
SearchesOrdered ==
    [][ /\ DocsSearchInOrder
        /\ CodeSearchInOrder
        /\ Invoked("docs") => pc = "docs" /\ calls_made.code = 0 /\ calls_made.fetch = 0
        /\ Invoked("code") => pc = "code" /\ idx <= 2 /\ calls_made.fetch = 0
        /\ Invoked("fetch") => pc = "fetch" /\ ~Invoked("docs") /\ ~Invoked("code")
        /\ pc = "fetch" => pc' \notin {"docs", "code"}
        /\ pc = "code" => pc' # "docs" ]_vars

\* a call that searched the documentation with two queries, then the code
\* samples, and is now fetching
FetchingAfterBothSearches ==
    /\ pc = "fetch"
    /\ calls_made.docs >= 2 /\ calls_made.code >= 1 /\ calls_made.fetch >= 1
    /\ Len(hits) = MaxSelectedHits

\* the argument shapes are tried in their order, each at most once: the
\* shapes before the current one raised, the invoker received no shape
\* twice and none out of order, and a request that returned a payload
\* returned that of the first shape that did not raise, the last one tried
ShapesTriedInOrder ==
    LET t == tool_request IN
    /\ t.pc = "trying" => t.attempt \in 1..t.shapes /\ t.raised = 1..(t.attempt - 1)
    /\ Len(t.received) <= t.shapes
    /\ \A i \in 1..Len(t.received) : t.received[i].shape \in 1..t.shapes
    /\ \A i, j \in 1..Len(t.received) : i < j => t.received[i].shape < t.received[j].shape
    /\ (t.pc = "returned" /\ ~t.returned.is_none) =>
           /\ Len(t.received) >= 1
           /\ t.received[Len(t.received)].shape = Cardinality(t.raised) + 1
           /\ t.raised = 1..Cardinality(t.raised)
           /\ Cardinality(t.raised) < t.shapes

\* the request returned None
ReturnedNone == tool_request.pc = "returned" /\ tool_request.returned.is_none

\* the request was for a tool discovery does not list, and nothing was tried
ToolNotListed ==
    /\ ~_tool_available(tool_request.tool_name, tool_request.discovered_tools)
    /\ tool_request.received = <<>>
    /\ tool_request.raised = {}

\* C27 as stated: one tool request tries its argument shapes in the fixed
\* order, returns the result of the first attempt that does not raise and
\* makes no further attempt; it yields no payload only if every shape
\* raised; it makes at most 3 invocations per search and 2 per fetch.
NoPayloadOnlyIfEveryShapeRaised ==
    /\ ShapesTriedInOrder
    /\ ReturnedNone => tool_request.raised = 1..tool_request.shapes

\* C27, amended: one tool request tries its argument shapes in the fixed
\* order, returns the result of the first attempt that does not raise and
\* makes no further attempt; it yields no payload only if every shape
\* raised, or if discovery succeeded and does not list the tool, in which
\* case no shape is tried; it makes at most 3 invocations per search and 2
\* per fetch.
NoPayloadOnlyIfRaisedOrNotListed ==
    /\ ShapesTriedInOrder
    /\ ReturnedNone => tool_request.raised = 1..tool_request.shapes \/ ToolNotListed

\* a search whose first two argument shapes raised and whose third returned
ThirdShapeReturned ==
    /\ tool_request.pc = "returned"
    /\ tool_request.shapes = SearchShapes
    /\ ~tool_request.returned.is_none
    /\ tool_request.raised = {1, 2}
    /\ Len(tool_request.received) = 3

\* is_tool_allowed and approval_handler both let the name through
PassedPolicy(name) ==
    /\ ~PolicyDecisions[name].allowed.raised /\ PolicyDecisions[name].allowed.value
    /\ ~PolicyDecisions[name].approved.raised /\ PolicyDecisions[name].approved.value

\* _normalize_tool_name of the names given to the gateway
NormalizedNames == [name \in GatewayNames |-> _normalize_tool_name(PyStr(name)).value]

\* the invoker receives only names that passed the policy
ReceivedPassedPolicy ==
    \A i \in 1..Len(tool_request.received) : PassedPolicy(tool_request.received[i].tool_name)

\* a request for a name the policy denies never reaches the invoker and
\* returns None: each raise is caught as a failed attempt
DenialAbsorbed ==
    ~PassedPolicy(tool_request.tool_name) =>
        /\ tool_request.received = <<>>
        /\ tool_request.pc = "returned" => tool_request.returned.is_none

ToolInvocations == calls_made.docs + calls_made.code + calls_made.fetch

\* the bounds on the external calls of one grounding call
ExternalCallsBounded ==
    /\ calls_made.list <= 1
    /\ Len(queries) <= 4
    /\ calls_made.docs <= 12
    /\ calls_made.code <= 6
    /\ calls_made.fetch <= 6
    /\ ToolInvocations <= 24
    /\ calls_made.model <= 1

\* C28: every grounding call terminates after a bounded number of external
\* calls whatever the external actor does, short of hanging: at most 1
\* discovery call, 4 queries, 12 documentation-search invocations, 6
\* code-sample-search invocations, 6 fetch invocations (24 tool invocations
\* in total) and 1 model call.
CallTerminatesWithinBounds ==
    /\ []ExternalCallsBounded
    /\ [][(pc \in {"docs", "code", "fetch", "synth"}) => Position' # Position]_vars
    /\ (pc \in {"docs", "code", "fetch", "synth"}) ~> (pc \in {"done", "raised"})

\* a call that ended after 1 discovery call, 4 queries, 12 documentation-search
\* invocations, 6 code-sample-search invocations, 6 fetch invocations and
\* its model call
CallEndedAtTheBounds ==
    /\ pc = "done"
    /\ calls_made.list = 1
    /\ Len(queries) = 4
    /\ calls_made.docs = 12 /\ calls_made.code = 6 /\ calls_made.fetch = 6
    /\ calls_made.model = 1

\* the first 20 words of a text, separated by single spaces
FirstTwentyWords(text) ==
    LET words == split(text) IN
    join(SubSeq(words, 1, Min(Len(words), 20)))

\* a step of the fetch loop that appends an evidence item
EvidenceItemBuilt == pc = "fetch" /\ Len(evidence') = Len(evidence) + 1

\* C30: every evidence item built by the Evidence Assembler has a snippet
\* of at least 1 and at most 20 words, chosen by precedence: the
\* whitespace-normalized first 20 words of the cached or fetched content
\* when that content is non-empty (the content is then what the cache holds
\* for the hit's URL after the step), else the hit's own snippet (cut and
\* normalized in the same way), else the generic "See Microsoft Learn
\* documentation for details." text; an empty fetch result never yields an
\* empty snippet.
SnippetChosenByPrecedence ==
    [][EvidenceItemBuilt =>
          LET hit == hits[idx]
              item == evidence'[Len(evidence')]
              content == cache_get(cache', hit.url)
          IN
          /\ item.url = hit.url /\ item.title = hit.title
          /\ item.snippet = IF content # "" THEN FirstTwentyWords(content)
                            ELSE IF hit.snippet # "" THEN FirstTwentyWords(hit.snippet)
                            ELSE "See Microsoft Learn documentation for details."
          /\ Len(split(item.snippet)) \in 1..20]_vars

\* a call whose evidence holds an item with the first 20 words of a longer
\* fetched document and an item with the generic text, built for a hit
\* without snippet whose fetch gave nothing
GenericSnippetAfterEmptyFetch ==
    /\ calls_made.fetch >= 2
    /\ \E i, j \in 1..Len(evidence) :
           /\ evidence[i].snippet = "See Microsoft Learn documentation for details."
           /\ evidence[i].url \notin DOMAIN cache
           /\ evidence[j].url \in DOMAIN cache
           /\ cache[evidence[j].url] = LongContent
           /\ evidence[j].snippet # LongContent

====
